---- MODULE Spec2Model ----
(***************************************************************************)
(* A model of kubernetes-mcp: the CEL policy evaluator                     *)
(* (internal/authorization/evaluator.go), the tool dispatcher              *)
(* (internal/k8stools) and the start-up wiring of cmd/main.go.             *)
(*                                                                         *)
(* Conventions.  Go strings that the code only compares for equality       *)
(* (tool names, context names, API groups, versions, kinds) are TLA+       *)
(* strings.  Go strings that the code takes apart (namespaces and resource *)
(* names matched against wildcard patterns, the forwarded bearer token)    *)
(* are sequences of one-character strings, so that prefix, suffix, split   *)
(* and substring are computed and not assumed.  A Go map[string]bool whose *)
(* entries are only ever set to true is the set of its keys.               *)
(***************************************************************************)
EXTENDS Integers, Sequences, FiniteSets, TLC

VARIABLES
    config,     \* the configuration document read at start-up (api.Configuration)
    authz,      \* Manager.authz: the evaluator handed to the tools, or Nil
    clientManager, \* Manager.clientManager: the kubernetes.ClientManager, or Nil
    phase,      \* position of the process: "main" before start-up, then "serving"
    call,       \* the tool invocation just served and how it went, or Idle
    machine,    \* the machine under the client manager: credential files, the
                \* fsnotify channel, the clock, the Client objects in memory; Nil
                \* where the specification runs no goroutine beside the caller
    goroutines  \* the goroutines beside the caller (watchFiles, the debounce
                \* callbacks, concurrent requests) with their locals; Nil likewise

vars == <<config, authz, clientManager, phase, call, machine, goroutines>>

\* Go pointers and optional values: Nil, or Some(v) holding v
Nil == <<>>
Some(v) == <<v>>
IsNil(p) == Len(p) = 0
Deref(p) == p[1]

(***************************************************************************)
(* Bounds of the model.                                                    *)
(***************************************************************************)
MaxPolicies == 2      \* longest policy list of a configuration

(***************************************************************************)
(* strings package, on sequences of characters                             *)
(***************************************************************************)
HasPrefix(s, prefix) ==
    Len(prefix) <= Len(s) /\ SubSeq(s, 1, Len(prefix)) = prefix

HasSuffix(s, suffix) ==
    Len(suffix) <= Len(s) /\ SubSeq(s, Len(s) - Len(suffix) + 1, Len(s)) = suffix

Contains(s, substr) ==
    \E i \in 0..(Len(s) - Len(substr)) : SubSeq(s, i + 1, i + Len(substr)) = substr

RECURSIVE SplitFrom(_, _, _, _)
SplitFrom(s, sep, i, cur) ==
    IF i > Len(s) THEN <<cur>>
    ELSE IF s[i] = sep THEN <<cur>> \o SplitFrom(s, sep, i + 1, <<>>)
    ELSE SplitFrom(s, sep, i + 1, Append(cur, s[i]))

\* strings.Split(s, sep) for a one-character separator
Split(s, sep) == SplitFrom(s, sep, 1, <<>>)

SeqToSet(s) == {s[i] : i \in 1..Len(s)}

(***************************************************************************)
(* Values of the model                                                     *)
(***************************************************************************)
\* namespaces and names, as character sequences
NsNone     == <<>>
NsDefault  == <<"d", "e", "f">>
NsTeamA    == <<"t", "-", "a">>
NameDb     == <<"d", "b">>
StarPat    == <<"*">>

\* identity claims (map[string]any): the keys present and the value of "groups"
NoPayload  == [claims |-> {}, groups |-> {}]
SrePayload == [claims |-> {"groups"}, groups |-> {"sre-team"}]
SubPayload == [claims |-> {"sub"}, groups |-> {}]
DevPayload == [claims |-> {"groups"}, groups |-> {"developers"}]

\* len(payload)
PayloadLen(payload) == Cardinality(payload.claims)

\* authorization.ResourceInfo
ResourceInfo(group, version, kind, name) ==
    [Group |-> group, Version |-> version, Kind |-> kind, Name |-> name]

EmptyResource == ResourceInfo("", "", "", <<>>)

\* api.ResourceRule; an omitted list is the empty sequence
ResourceRule(groups, versions, kinds, namespaces, names) ==
    [Groups |-> groups, Versions |-> versions, Kinds |-> kinds,
     Namespaces |-> namespaces, Names |-> names]

\* api.ToolContextRule (label and annotation prefixes are not read by Evaluate)
ToolContextRule(tools, contexts, resources) ==
    [Tools |-> tools, Contexts |-> contexts, Resources |-> resources]

\* api.AuthorizationPolicy; Allow and Deny are pointers: Nil or Some(rule)
AuthorizationPolicy(name, expr, allow, deny) ==
    [Name |-> name, Expression |-> expr, Allow |-> allow, Deny |-> deny]

\* authorization.AuthzRequest
AuthzRequest(payload, tool, context, namespace, resource) ==
    [Payload |-> payload, Tool |-> tool, Context |-> context,
     Namespace |-> namespace, Resource |-> resource]

(***************************************************************************)
(* The CEL runtime (cel-go), for the match expressions the model uses      *)
(***************************************************************************)
ExprTrue    == "true"
ExprSre     == "payload.groups.exists(g, g == 'sre-team')"
ExprDev     == "payload.groups.exists(g, g == 'developers')"
ExprString  == "tool"
ExprBroken  == "payload.groups.exists("

\* env.Compile: issues.Err() is non-nil for an expression that does not parse
celCompiles(expr) == expr # ExprBroken

\* cp.Program.Eval(evalCtx): an error, or a value that is a bool or is not
celEval(expr, evalCtx) ==
    CASE expr = ExprTrue ->
            [err |-> FALSE, isBool |-> TRUE, val |-> TRUE]
      [] expr = ExprSre ->
            IF "groups" \in evalCtx.payload.claims
            THEN [err |-> FALSE, isBool |-> TRUE,
                  val |-> "sre-team" \in evalCtx.payload.groups]
            ELSE [err |-> TRUE, isBool |-> FALSE, val |-> FALSE]   \* no such key
      [] expr = ExprDev ->
            IF "groups" \in evalCtx.payload.claims
            THEN [err |-> FALSE, isBool |-> TRUE,
                  val |-> "developers" \in evalCtx.payload.groups]
            ELSE [err |-> TRUE, isBool |-> FALSE, val |-> FALSE]   \* no such key
      [] expr = ExprString ->
            [err |-> FALSE, isBool |-> FALSE, val |-> FALSE]       \* a string
      [] OTHER ->
            [err |-> TRUE, isBool |-> FALSE, val |-> FALSE]

(***************************************************************************)
(* internal/authorization/evaluator.go                                     *)
(***************************************************************************)
VirtualResourceGroup    == "_"
VirtualKindAPIDiscovery == "APIDiscovery"
VirtualKindClusterInfo  == "ClusterInfo"
VirtualKindContext      == "Context"

VirtualTools ==
    {"list_api_resources", "list_api_versions", "get_cluster_info",
     "get_current_context", "list_contexts", "switch_context"}

ToolVirtualResources(tool) ==
    CASE tool \in {"list_api_resources", "list_api_versions"} ->
            ResourceInfo(VirtualResourceGroup, "", VirtualKindAPIDiscovery, <<>>)
      [] tool = "get_cluster_info" ->
            ResourceInfo(VirtualResourceGroup, "", VirtualKindClusterInfo, <<>>)
      [] tool \in {"get_current_context", "list_contexts", "switch_context"} ->
            ResourceInfo(VirtualResourceGroup, "", VirtualKindContext, <<>>)

\* mutant: the mapping is applied whatever the caller's descriptor holds
GetResourceForTool_Always(tool, resource) ==
    IF tool \in VirtualTools THEN ToolVirtualResources(tool) ELSE resource

GetResourceForTool(tool, resource) ==
    IF resource.Kind = "" /\ tool \in VirtualTools
    THEN ToolVirtualResources(tool)
    ELSE resource

\* NewEvaluator: compile every policy; the first failure aborts construction
\* and the caller receives a nil evaluator with the error.
NewEvaluator(authorization) ==
    IF \E i \in 1..Len(authorization.Policies) :
            ~celCompiles(authorization.Policies[i].Expression)
    THEN [evaluator |-> Nil, err |-> TRUE]
    ELSE [evaluator |-> Some([config |-> authorization,
                              compiledPolicies |-> authorization.Policies]),
          err |-> FALSE]

\* the accumulator Evaluate starts from
NoPermissions ==
    [AllowedTools |-> {}, AllowedContexts |-> {},
     AllowedResources |-> <<>>, DeniedResources |-> <<>>]

applyAllowRules(rule, perms) ==
    [perms EXCEPT
        !.AllowedTools = @ \cup SeqToSet(rule.Tools),
        !.AllowedContexts = @ \cup SeqToSet(rule.Contexts),
        !.AllowedResources = @ \o rule.Resources]

\* the loop of applyDenyRules over one token list, in list order
RECURSIVE denyTokens(_, _, _)
denyTokens(tokens, i, allowed) ==
    IF i > Len(tokens) THEN allowed
    ELSE IF tokens[i] = "*"
         THEN denyTokens(tokens, i + 1, {"_denied_*"})
         ELSE denyTokens(tokens, i + 1, allowed \ {tokens[i]})

applyDenyRules(rule, perms) ==
    [perms EXCEPT
        !.DeniedResources = @ \o rule.Resources,
        !.AllowedTools = denyTokens(rule.Tools, 1, @),
        !.AllowedContexts = denyTokens(rule.Contexts, 1, @)]

applyPolicyPermissions(policy, perms) ==
    LET afterAllow == IF ~IsNil(policy.Allow)
                      THEN applyAllowRules(Deref(policy.Allow), perms)
                      ELSE perms
    IN  IF ~IsNil(policy.Deny)
        THEN applyDenyRules(Deref(policy.Deny), afterAllow)
        ELSE afterAllow

\* mutant: a request value that is empty matches every token
matchesList_EmptyValueMatches(list, value) ==
    \E i \in 1..Len(list) : list[i] = "*" \/ list[i] = value \/ value = ""

matchesList(list, value) ==
    \E i \in 1..Len(list) : list[i] = "*" \/ list[i] = value

matchesWildcard(pattern, value) ==
    IF pattern = StarPat \/ pattern = value THEN TRUE
    ELSE IF Contains(pattern, StarPat)
    THEN LET parts == Split(pattern, "*")
         IN  IF Len(parts) = 2
             THEN IF parts[2] = <<>> THEN HasPrefix(value, parts[1])
                  ELSE IF parts[1] = <<>> THEN HasSuffix(value, parts[2])
                  ELSE /\ HasPrefix(value, parts[1])
                       /\ HasSuffix(value, parts[2])
                       /\ Len(value) >= Len(parts[1]) + Len(parts[2])
             ELSE IF Len(parts) = 3 /\ parts[1] = <<>> /\ parts[3] = <<>>
             THEN Contains(value, parts[2])
             ELSE FALSE
    ELSE FALSE

matchesWildcardList(patterns, value) ==
    \E i \in 1..Len(patterns) : matchesWildcard(patterns[i], value)

matchesResourceRule(rule, resource, namespace) ==
    /\ ~(Len(rule.Groups) > 0 /\ ~matchesList(rule.Groups, resource.Group))
    /\ ~(Len(rule.Versions) > 0 /\ ~matchesList(rule.Versions, resource.Version))
    /\ ~(Len(rule.Kinds) > 0 /\ ~matchesList(rule.Kinds, resource.Kind))
    /\ ~(Len(rule.Namespaces) > 0 /\ ~matchesWildcardList(rule.Namespaces, namespace))
    /\ ~(Len(rule.Names) > 0 /\ ~matchesWildcardList(rule.Names, resource.Name))

matchesResourceRules(rules, resource, namespace) ==
    \E i \in 1..Len(rules) : matchesResourceRule(rules[i], resource, namespace)

\* mutant: the allow rules are consulted before the deny rules
isResourceAllowed_AllowFirst(perms, resource, namespace) ==
    IF Len(perms.AllowedResources) = 0 /\ Len(perms.DeniedResources) = 0 THEN TRUE
    ELSE IF /\ Len(perms.AllowedResources) > 0
            /\ matchesResourceRules(perms.AllowedResources, resource, namespace)
    THEN TRUE
    ELSE IF /\ Len(perms.DeniedResources) > 0
            /\ matchesResourceRules(perms.DeniedResources, resource, namespace)
    THEN FALSE
    ELSE Len(perms.AllowedResources) = 0

isResourceAllowed(perms, resource, namespace) ==
    IF Len(perms.AllowedResources) = 0 /\ Len(perms.DeniedResources) = 0 THEN TRUE
    ELSE IF /\ Len(perms.DeniedResources) > 0
            /\ matchesResourceRules(perms.DeniedResources, resource, namespace)
    THEN FALSE
    ELSE IF Len(perms.AllowedResources) = 0 THEN TRUE
    ELSE matchesResourceRules(perms.AllowedResources, resource, namespace)

\* mutant: an empty tool or context set is read as "no restriction"
isRequestAllowed_EmptyMeansAny(perms, req) ==
    IF "_denied_*" \in perms.AllowedTools \/ "_denied_*" \in perms.AllowedContexts
    THEN FALSE
    ELSE IF /\ perms.AllowedTools # {}
            /\ "*" \notin perms.AllowedTools /\ req.Tool \notin perms.AllowedTools
    THEN FALSE
    ELSE IF /\ perms.AllowedContexts # {}
            /\ "*" \notin perms.AllowedContexts
            /\ req.Context \notin perms.AllowedContexts
    THEN FALSE
    ELSE isResourceAllowed(perms, req.Resource, req.Namespace)

isRequestAllowed(perms, req) ==
    IF "_denied_*" \in perms.AllowedTools \/ "_denied_*" \in perms.AllowedContexts
    THEN FALSE
    ELSE IF "*" \notin perms.AllowedTools /\ req.Tool \notin perms.AllowedTools
    THEN FALSE
    ELSE IF "*" \notin perms.AllowedContexts /\ req.Context \notin perms.AllowedContexts
    THEN FALSE
    ELSE isResourceAllowed(perms, req.Resource, req.Namespace)

\* the facts handed to every match expression
evalContext(req) ==
    [payload |-> req.Payload, tool |-> req.Tool, context |-> req.Context,
     namespace |-> req.Namespace, resource |-> req.Resource]

\* mutant: a predicate that raises counts as a match
policyMatches_ErrorVotes(policy, evalCtx) ==
    LET out == celEval(policy.Expression, evalCtx)
    IN  out.err \/ (out.isBool /\ out.val)

\* one policy's match expression: true only for a boolean true without error
policyMatches(policy, evalCtx) ==
    LET out == celEval(policy.Expression, evalCtx)
    IN  ~out.err /\ out.isBool /\ out.val

\* the loop of Evaluate over compiledPolicies[i..], in list order
RECURSIVE foldPolicies(_, _, _, _)
foldPolicies(compiled, evalCtx, i, perms) ==
    IF i > Len(compiled) THEN perms
    ELSE IF policyMatches(compiled[i], evalCtx)
         THEN foldPolicies(compiled, evalCtx, i + 1,
                           applyPolicyPermissions(compiled[i], perms))
         ELSE foldPolicies(compiled, evalCtx, i + 1, perms)

\* the request as Evaluate sees it after the virtual resource mapping
mappedRequest(req) ==
    [req EXCEPT !.Resource = GetResourceForTool(req.Tool, req.Resource)]

effectivePermissions(e, req) ==
    foldPolicies(e.compiledPolicies, evalContext(mappedRequest(req)), 1, NoPermissions)

\* mutant: the anonymous check is missing
Evaluate_NoAnonymousGate(e, req) ==
    isRequestAllowed(effectivePermissions(e, req), mappedRequest(req))

\* Evaluator.Evaluate: TRUE is allow, FALSE is deny (the error return is always nil)
Evaluate(e, req) ==
    IF PayloadLen(req.Payload) = 0 /\ ~e.config.AllowAnonymous
    THEN FALSE
    ELSE isRequestAllowed(effectivePermissions(e, req), mappedRequest(req))

(***************************************************************************)
(* internal/k8stools/helpers.go: identity extraction and the authorization *)
(* check every handler starts with                                         *)
(***************************************************************************)
\* the forwarded bearer tokens of the model ("" is an absent header)
TokAbsent  == <<>>
TokSre     == <<"h", ".", "S", ".", "s">>
TokSub     == <<"h", ".", "U", ".", "s">>
TokTwoSeg  == <<"h", ".", "S">>
TokBadB64  == <<"h", ".", "!", ".", "s">>
TokBadJson == <<"h", ".", "J", ".", "s">>
TokDev     == <<"h", ".", "D", ".", "s">>

Tokens == {TokAbsent, TokSre, TokSub, TokTwoSeg, TokBadB64, TokBadJson}

\* base64.RawURLEncoding.DecodeString: the text a segment stands for, or an
\* error for a segment holding a character outside the URL-safe alphabet
base64Decode(segment) ==
    CASE segment = <<"S">> -> [err |-> FALSE, bytes |-> "{groups:[sre-team]}"]
      [] segment = <<"U">> -> [err |-> FALSE, bytes |-> "{sub:u1}"]
      [] segment = <<"D">> -> [err |-> FALSE, bytes |-> "{groups:[developers]}"]
      [] segment = <<"J">> -> [err |-> FALSE, bytes |-> "junk"]
      [] segment = <<>>    -> [err |-> FALSE, bytes |-> ""]
      [] OTHER             -> [err |-> TRUE, bytes |-> ""]

\* json.Unmarshal into map[string]any
jsonUnmarshal(bytes) ==
    CASE bytes = "{groups:[sre-team]}" -> [err |-> FALSE, payload |-> SrePayload]
      [] bytes = "{sub:u1}"            -> [err |-> FALSE, payload |-> SubPayload]
      [] bytes = "{groups:[developers]}" -> [err |-> FALSE, payload |-> DevPayload]
      [] OTHER                         -> [err |-> TRUE, payload |-> NoPayload]

\* extractJWTPayload: forwardedHeader is the configured header name, token the
\* value request.Header.Get returns for it
extractJWTPayload(forwardedHeader, token) ==
    IF forwardedHeader = "" THEN NoPayload
    ELSE IF token = <<>> THEN NoPayload
    ELSE LET parts == Split(token, ".")
         IN  IF Len(parts) # 3 THEN NoPayload
             ELSE LET decoded == base64Decode(parts[2])
                  IN  IF decoded.err THEN NoPayload
                      ELSE LET parsed == jsonUnmarshal(decoded.bytes)
                           IN  IF parsed.err THEN NoPayload ELSE parsed.payload

\* fmt.Errorf("access denied: not authorized to use tool %s on context %s")
accessDenied(tool, k8sContext) ==
    <<"access denied: not authorized to use tool ", tool, " on context ", k8sContext>>

\* mutant: the evaluator's deny is not turned into an error
checkAuthorization_DenyIgnored(m, token, tool, k8sContext, namespace, resource) ==
    IF IsNil(m.authz)
    THEN [evaluated |-> FALSE, req |-> Nil, allowed |-> FALSE, err |-> Nil]
    ELSE LET payload == extractJWTPayload(m.config.ForwardedHeader, token)
             req     == AuthzRequest(payload, tool, k8sContext, namespace, resource)
         IN  [evaluated |-> TRUE, req |-> Some(req),
              allowed |-> Evaluate(Deref(m.authz), req), err |-> Nil]

\* checkAuthorization: err is Nil when the handler may go on.  evaluated tells
\* whether the evaluator was consulted, req and allowed what it was asked and said.
checkAuthorization(m, token, tool, k8sContext, namespace, resource) ==
    IF IsNil(m.authz)
    THEN [evaluated |-> FALSE, req |-> Nil, allowed |-> FALSE, err |-> Nil]
    ELSE LET payload == extractJWTPayload(m.config.ForwardedHeader, token)
             req     == AuthzRequest(payload, tool, k8sContext, namespace, resource)
             allowed == Evaluate(Deref(m.authz), req)
         IN  [evaluated |-> TRUE, req |-> Some(req), allowed |-> allowed,
              err |-> IF allowed THEN Nil ELSE accessDenied(tool, k8sContext)]

\* the Manager fields checkAuthorization reads
Manager == [authz |-> authz, config |-> config]

(***************************************************************************)
(* internal/kubernetes/client.go: the contexts the server can reach        *)
(***************************************************************************)
KubernetesContextConfig(name, allowedNamespaces, deniedNamespaces) ==
    [Name |-> name,
     AllowedNamespaces |-> allowedNamespaces,
     DeniedNamespaces |-> deniedNamespaces]

KubernetesConfig(defaultContext, contexts) ==
    [DefaultContext |-> defaultContext, Contexts |-> contexts]

\* createClient: the clients of one context.  Reading the kubeconfig and
\* building the clients is the environment's part: env.kubeconfig tells
\* whether that works, env.metrics whether the optional metrics client
\* could be built
createClient(name, ctxConfig, env) ==
    IF env.kubeconfig = "err"
    THEN [client |-> Nil, err |-> <<"failed to build config from kubeconfig">>]
    ELSE [client |-> Some([Context |-> name, MetricsClient |-> env.metrics]),
          err |-> Nil]

\* the loop of NewClientManager over config.Contexts[i..]
RECURSIVE loadContexts(_, _, _, _)
loadContexts(cm, contexts, i, env) ==
    IF i > Len(contexts) THEN [cm |-> Some(cm), err |-> Nil]
    ELSE IF contexts[i].Name \in DOMAIN cm.contextsByName
    THEN [cm |-> Nil, err |-> <<"duplicate context name ", contexts[i].Name>>]
    ELSE LET made == createClient(contexts[i].Name, contexts[i], env)
         IN  IF ~IsNil(made.err)
             THEN [cm |-> Nil,
                   err |-> <<"failed to create client for context ",
                             contexts[i].Name>>]
             ELSE loadContexts(
                    [cm EXCEPT
                        !.clients = [n \in DOMAIN @ \cup {contexts[i].Name} |->
                                        IF n = contexts[i].Name
                                        THEN Deref(made.client) ELSE @[n]],
                        !.contextsByName =
                                    [n \in DOMAIN @ \cup {contexts[i].Name} |->
                                        IF n = contexts[i].Name
                                        THEN contexts[i] ELSE @[n]]],
                    contexts, i + 1, env)

\* NewClientManager: the current context starts as the configured default,
\* whether or not a context of that name is loaded
NewClientManager(kubernetes, env) ==
    loadContexts([currentContext |-> kubernetes.DefaultContext,
                  clients |-> <<>>,
                  contextsByName |-> <<>>],
                 kubernetes.Contexts, 1, env)

GetClient(cm, context) ==
    LET wanted == IF context = "" THEN cm.currentContext ELSE context
    IN  IF wanted \in DOMAIN cm.clients
        THEN [client |-> Some(cm.clients[wanted]), err |-> Nil]
        ELSE [client |-> Nil, err |-> <<"context ", wanted, " not found">>]

GetCurrentContext(cm) == cm.currentContext

SetCurrentContext(cm, context) ==
    IF context \notin DOMAIN cm.clients
    THEN [cm |-> cm, err |-> <<"context ", context, " not found">>]
    ELSE [cm |-> [cm EXCEPT !.currentContext = context], err |-> Nil]

\* ListContexts: ranges over a map, so the names come in no particular order
ListContexts(cm) == DOMAIN cm.clients

GetContextConfig(cm, context) ==
    LET wanted == IF context = "" THEN cm.currentContext ELSE context
    IN  IF wanted \in DOMAIN cm.contextsByName
        THEN [config |-> Some(cm.contextsByName[wanted]), ok |-> TRUE]
        ELSE [config |-> Nil, ok |-> FALSE]

\* IsNamespaceAllowed with the allow-list consulted before the deny-list
IsNamespaceAllowed_AllowFirst(cm, context, namespace) ==
    LET found == GetContextConfig(cm, context)
    IN  IF ~found.ok THEN FALSE
        ELSE LET ctxConfig == Deref(found.config)
             IN  IF namespace \in SeqToSet(ctxConfig.AllowedNamespaces) THEN TRUE
                 ELSE IF namespace \in SeqToSet(ctxConfig.DeniedNamespaces) THEN FALSE
                 ELSE Len(ctxConfig.AllowedNamespaces) = 0

IsNamespaceAllowed(cm, context, namespace) ==
    LET found == GetContextConfig(cm, context)
    IN  IF ~found.ok THEN FALSE
        ELSE LET ctxConfig == Deref(found.config)
             IN  IF namespace \in SeqToSet(ctxConfig.DeniedNamespaces) THEN FALSE
                 ELSE IF Len(ctxConfig.AllowedNamespaces) = 0 THEN TRUE
                 ELSE namespace \in SeqToSet(ctxConfig.AllowedNamespaces)

(***************************************************************************)
(* internal/k8stools: what the handlers share                              *)
(*                                                                         *)
(* A handler is an operator of the Manager m, the request (the forwarded   *)
(* token and the tool arguments) and reply, the answers the cluster gives  *)
(* to the API calls the handler makes.  It yields the authorization check  *)
(* it made, the cluster operations it issued in order, the client manager  *)
(* it leaves behind and the result it returns.                             *)
(***************************************************************************)
errorResult(err) == [IsError |-> TRUE, Text |-> <<"Error: ">> \o err]

successResult(text) == [IsError |-> FALSE, Text |-> text]

\* fmt.Errorf("namespace %s is not allowed in context %s")
namespaceNotAllowed(namespace, k8sContext) ==
    <<"namespace ", namespace, " is not allowed in context ", k8sContext>>

\* the error of a failed API call, of a failed YAML rendering or yq pipeline
apiError == <<"the server rejected the request">>
postError == <<"failed to evaluate expression">>

getContextParam(m, args) ==
    IF args.context # "" THEN args.context
    ELSE GetCurrentContext(m.clientManager)

\* strings.ToLower over the kinds of the model
ToLower(kind) ==
    CASE kind = "Secret"     -> "secret"
      [] kind = "ConfigMap"  -> "configmap"
      [] kind = "Deployment" -> "deployment"
      [] kind = "ReplicaSet" -> "replicaset"
      [] kind = "Ingress"    -> "ingress"
      [] kind = "Endpoints"  -> "endpoints"
      [] OTHER               -> kind

\* getGVR: the lower-cased kind with an "s" unless it ends in one, but for
\* the listed irregular plurals
getGVR(group, version, kind) ==
    LET lower == ToLower(kind)
        plural == IF lower \in {"endpoints"} THEN lower ELSE lower \o "s"
        resource == CASE lower = "ingress"       -> "ingresses"
                      [] lower = "networkpolicy" -> "networkpolicies"
                      [] lower = "endpoints"     -> "endpoints"
                      [] OTHER                   -> plural
    IN  [Group |-> group, Version |-> version, Resource |-> resource]

\* one call to the API server of a context through that context's client
Op(verb, client, gvr, namespace, name) ==
    [verb |-> verb, context |-> client.Context, resource |-> gvr,
     namespace |-> namespace, name |-> name]

\* a handler that returned before its authorization check
NotChecked == [evaluated |-> FALSE, req |-> Nil, allowed |-> FALSE, err |-> Nil]

\* what a handler leaves behind
Done(m, auth, ops, result) ==
    [authz |-> auth, ops |-> ops, clientManager |-> m.clientManager,
     result |-> result]


(***************************************************************************)
(* tools_read.go                                                           *)
(***************************************************************************)
handleGetResource(m, request, reply) ==
    LET args == request.args
        k8sContext == getContextParam(m, args)
        namespace == args.namespace
        auth == checkAuthorization(m, request.token, "get_resource", k8sContext,
                    namespace,
                    ResourceInfo(args.group, args.version, args.kind, args.name))
        found == GetClient(m.clientManager, k8sContext)
        get == Op("get", Deref(found.client),
                  getGVR(args.group, args.version, args.kind), namespace, args.name)
    IN  IF ~IsNil(auth.err) THEN Done(m, auth, <<>>, errorResult(auth.err))
        ELSE IF namespace # NsNone
                /\ ~IsNamespaceAllowed(m.clientManager, k8sContext, namespace)
        THEN Done(m, auth, <<>>,
                  errorResult(namespaceNotAllowed(namespace, k8sContext)))
        ELSE IF ~IsNil(found.err) THEN Done(m, auth, <<>>, errorResult(found.err))
        ELSE IF reply.first = "err" THEN Done(m, auth, <<get>>, errorResult(apiError))
        ELSE IF reply.post = "err" THEN Done(m, auth, <<get>>, errorResult(postError))
        ELSE Done(m, auth, <<get>>, successResult(<<"yaml">>))

handleListResources(m, request, reply) ==
    LET args == request.args
        k8sContext == getContextParam(m, args)
        namespace == args.namespace
        auth == checkAuthorization(m, request.token, "list_resources", k8sContext,
                    namespace,
                    ResourceInfo(args.group, args.version, args.kind, <<>>))
        found == GetClient(m.clientManager, k8sContext)
        list == Op("list", Deref(found.client),
                   getGVR(args.group, args.version, args.kind), namespace, <<>>)
    IN  IF ~IsNil(auth.err) THEN Done(m, auth, <<>>, errorResult(auth.err))
        ELSE IF namespace # NsNone
                /\ ~IsNamespaceAllowed(m.clientManager, k8sContext, namespace)
        THEN Done(m, auth, <<>>,
                  errorResult(namespaceNotAllowed(namespace, k8sContext)))
        ELSE IF ~IsNil(found.err) THEN Done(m, auth, <<>>, errorResult(found.err))
        ELSE IF reply.first = "err" THEN Done(m, auth, <<list>>, errorResult(apiError))
        ELSE IF reply.post = "err" THEN Done(m, auth, <<list>>, errorResult(postError))
        ELSE Done(m, auth, <<list>>, successResult(<<"yaml">>))

\* the related events are listed only for a namespaced resource, and a
\* failure to list them is dropped
handleDescribeResource(m, request, reply) ==
    LET args == request.args
        k8sContext == getContextParam(m, args)
        namespace == args.namespace
        auth == checkAuthorization(m, request.token, "describe_resource",
                    k8sContext, namespace,
                    ResourceInfo(args.group, args.version, args.kind, args.name))
        found == GetClient(m.clientManager, k8sContext)
        get == Op("get", Deref(found.client),
                  getGVR(args.group, args.version, args.kind), namespace, args.name)
        events == Op("list", Deref(found.client),
                     [Group |-> "", Version |-> "v1", Resource |-> "events"],
                     namespace, <<>>)
        ops == IF namespace # NsNone THEN <<get, events>> ELSE <<get>>
    IN  IF ~IsNil(auth.err) THEN Done(m, auth, <<>>, errorResult(auth.err))
        ELSE IF namespace # NsNone
                /\ ~IsNamespaceAllowed(m.clientManager, k8sContext, namespace)
        THEN Done(m, auth, <<>>,
                  errorResult(namespaceNotAllowed(namespace, k8sContext)))
        ELSE IF ~IsNil(found.err) THEN Done(m, auth, <<>>, errorResult(found.err))
        ELSE IF reply.first = "err" THEN Done(m, auth, <<get>>, errorResult(apiError))
        ELSE IF reply.post = "err" THEN Done(m, auth, ops, errorResult(postError))
        ELSE Done(m, auth, ops,
                  successResult(IF namespace # NsNone /\ reply.second = "ok"
                                THEN <<"yaml", "# Related Events">>
                                ELSE <<"yaml">>))

(***************************************************************************)
(* tools_modify.go                                                         *)
(***************************************************************************)
\* yaml.Unmarshal of a manifest argument into an object: the manifests of
\* the model, by what they parse to
yamlUnmarshal(manifest) ==
    CASE manifest = "secret-in-default" ->
            [err |-> FALSE,
             obj |-> [apiVersion |-> "v1", kind |-> "Secret",
                      name |-> NameDb, namespace |-> NsDefault]]
      [] manifest = "configmap-no-namespace" ->
            [err |-> FALSE,
             obj |-> [apiVersion |-> "v1", kind |-> "ConfigMap",
                      name |-> NameDb, namespace |-> NsNone]]
      [] manifest = "deployment-in-team-a" ->
            [err |-> FALSE,
             obj |-> [apiVersion |-> "apps/v1", kind |-> "Deployment",
                      name |-> NameDb, namespace |-> NsTeamA]]
      [] OTHER ->
            [err |-> TRUE,
             obj |-> [apiVersion |-> "", kind |-> "", name |-> <<>>,
                      namespace |-> NsNone]]

\* obj.GroupVersionKind(): apiVersion is "version" or "group/version"
GroupVersionKind(obj) ==
    CASE obj.apiVersion = "v1" ->
            [Group |-> "", Version |-> "v1", Kind |-> obj.kind]
      [] obj.apiVersion = "apps/v1" ->
            [Group |-> "apps", Version |-> "v1", Kind |-> obj.kind]
      [] OTHER ->
            [Group |-> "", Version |-> obj.apiVersion, Kind |-> obj.kind]

\* the manifest is parsed before anything else; create, and update when the
\* object is already there
handleApplyManifest(m, request, reply) ==
    LET args == request.args
        k8sContext == getContextParam(m, args)
        parsed == yamlUnmarshal(args.manifest)
        obj == parsed.obj
        gvk == GroupVersionKind(obj)
        namespace == IF args.namespace # NsNone THEN args.namespace
                     ELSE obj.namespace
        auth == checkAuthorization(m, request.token, "apply_manifest", k8sContext,
                    namespace,
                    ResourceInfo(gvk.Group, gvk.Version, gvk.Kind, obj.name))
        found == GetClient(m.clientManager, k8sContext)
        gvr == getGVR(gvk.Group, gvk.Version, gvk.Kind)
        create == Op("create", Deref(found.client), gvr, namespace, obj.name)
        update == Op("update", Deref(found.client), gvr, namespace, obj.name)
        ops == IF reply.first = "exists" THEN <<create, update>> ELSE <<create>>
        failed == \/ reply.first = "err"
                  \/ reply.first = "exists" /\ reply.second = "err"
    IN  IF parsed.err
        THEN Done(m, NotChecked, <<>>, errorResult(<<"failed to parse manifest">>))
        ELSE IF ~IsNil(auth.err) THEN Done(m, auth, <<>>, errorResult(auth.err))
        ELSE IF namespace # NsNone
                /\ ~IsNamespaceAllowed(m.clientManager, k8sContext, namespace)
        THEN Done(m, auth, <<>>,
                  errorResult(namespaceNotAllowed(namespace, k8sContext)))
        ELSE IF ~IsNil(found.err) THEN Done(m, auth, <<>>, errorResult(found.err))
        ELSE IF failed THEN Done(m, auth, ops, errorResult(apiError))
        ELSE Done(m, auth, ops,
                  successResult(<<"Successfully applied ", gvk.Kind, obj.name,
                                  " in namespace ", namespace>>))

\* the patch type and the patch document are looked at only after the
\* client is found.  The patch documents of the model are not empty.
handlePatchResource(m, request, reply) ==
    LET args == request.args
        k8sContext == getContextParam(m, args)
        namespace == args.namespace
        auth == checkAuthorization(m, request.token, "patch_resource", k8sContext,
                    namespace,
                    ResourceInfo(args.group, args.version, args.kind, args.name))
        found == GetClient(m.clientManager, k8sContext)
        patch == Op("patch", Deref(found.client),
                    getGVR(args.group, args.version, args.kind), namespace, args.name)
    IN  IF ~IsNil(auth.err) THEN Done(m, auth, <<>>, errorResult(auth.err))
        ELSE IF namespace # NsNone
                /\ ~IsNamespaceAllowed(m.clientManager, k8sContext, namespace)
        THEN Done(m, auth, <<>>,
                  errorResult(namespaceNotAllowed(namespace, k8sContext)))
        ELSE IF ~IsNil(found.err) THEN Done(m, auth, <<>>, errorResult(found.err))
        ELSE IF args.patch_type \notin {"strategic", "merge", "json"}
        THEN Done(m, auth, <<>>,
                  errorResult(<<"invalid patch type: ", args.patch_type>>))
        ELSE IF args.patch = ":"
        THEN Done(m, auth, <<>>, errorResult(<<"failed to parse patch">>))
        ELSE IF reply.first = "err"
        THEN Done(m, auth, <<patch>>, errorResult(apiError))
        ELSE Done(m, auth, <<patch>>,
                  successResult(<<"Successfully patched ", args.kind, args.name>>))

handleDeleteResource(m, request, reply) ==
    LET args == request.args
        k8sContext == getContextParam(m, args)
        namespace == args.namespace
        auth == checkAuthorization(m, request.token, "delete_resource", k8sContext,
                    namespace,
                    ResourceInfo(args.group, args.version, args.kind, args.name))
        found == GetClient(m.clientManager, k8sContext)
        delete == Op("delete", Deref(found.client),
                     getGVR(args.group, args.version, args.kind), namespace,
                     args.name)
    IN  IF ~IsNil(auth.err) THEN Done(m, auth, <<>>, errorResult(auth.err))
        ELSE IF namespace # NsNone
                /\ ~IsNamespaceAllowed(m.clientManager, k8sContext, namespace)
        THEN Done(m, auth, <<>>,
                  errorResult(namespaceNotAllowed(namespace, k8sContext)))
        ELSE IF ~IsNil(found.err) THEN Done(m, auth, <<>>, errorResult(found.err))
        ELSE IF reply.first = "err"
        THEN Done(m, auth, <<delete>>, errorResult(apiError))
        ELSE Done(m, auth, <<delete>>,
                  successResult(<<"Successfully deleted ", args.kind, args.name,
                                  " in namespace ", namespace>>))

\* a selector is required, and asked for before the authorization check
handleDeleteResources(m, request, reply) ==
    LET args == request.args
        k8sContext == getContextParam(m, args)
        namespace == args.namespace
        auth == checkAuthorization(m, request.token, "delete_resources", k8sContext,
                    namespace,
                    ResourceInfo(args.group, args.version, args.kind, <<>>))
        found == GetClient(m.clientManager, k8sContext)
        deleteCollection == Op("deletecollection", Deref(found.client),
                               getGVR(args.group, args.version, args.kind),
                               namespace, <<>>)
    IN  IF args.label_selector = "" /\ args.field_selector = ""
        THEN Done(m, NotChecked, <<>>, errorResult(<<"at least one selector is required">>))
        ELSE IF ~IsNil(auth.err) THEN Done(m, auth, <<>>, errorResult(auth.err))
        ELSE IF namespace # NsNone
                /\ ~IsNamespaceAllowed(m.clientManager, k8sContext, namespace)
        THEN Done(m, auth, <<>>,
                  errorResult(namespaceNotAllowed(namespace, k8sContext)))
        ELSE IF ~IsNil(found.err) THEN Done(m, auth, <<>>, errorResult(found.err))
        ELSE IF reply.first = "err"
        THEN Done(m, auth, <<deleteCollection>>, errorResult(apiError))
        ELSE Done(m, auth, <<deleteCollection>>,
                  successResult(<<"Successfully deleted ", args.kind,
                                  " resources matching selector in namespace ",
                                  namespace>>))

(***************************************************************************)
(* scale_resource, get_rollout_status, restart_rollout, undo_rollout       *)
(***************************************************************************)
\* the group of the workload tools defaults to "apps"
workloadGroup(args) == IF args.group = "" THEN "apps" ELSE args.group

handleScaleResource(m, request, reply) ==
    LET args == request.args
        k8sContext == getContextParam(m, args)
        group == workloadGroup(args)
        namespace == args.namespace
        auth == checkAuthorization(m, request.token, "scale_resource", k8sContext,
                    namespace,
                    ResourceInfo(group, args.version, args.kind, args.name))
        found == GetClient(m.clientManager, k8sContext)
        patch == Op("patch", Deref(found.client),
                    getGVR(group, args.version, args.kind), namespace, args.name)
    IN  IF ~IsNil(auth.err) THEN Done(m, auth, <<>>, errorResult(auth.err))
        ELSE IF namespace # NsNone
                /\ ~IsNamespaceAllowed(m.clientManager, k8sContext, namespace)
        THEN Done(m, auth, <<>>,
                  errorResult(namespaceNotAllowed(namespace, k8sContext)))
        ELSE IF ~IsNil(found.err) THEN Done(m, auth, <<>>, errorResult(found.err))
        ELSE IF reply.first = "err"
        THEN Done(m, auth, <<patch>>, errorResult(apiError))
        ELSE Done(m, auth, <<patch>>,
                  successResult(<<"Successfully scaled ", args.kind, args.name>>))

handleGetRolloutStatus(m, request, reply) ==
    LET args == request.args
        k8sContext == getContextParam(m, args)
        group == workloadGroup(args)
        namespace == args.namespace
        auth == checkAuthorization(m, request.token, "get_rollout_status",
                    k8sContext, namespace,
                    ResourceInfo(group, args.version, args.kind, args.name))
        found == GetClient(m.clientManager, k8sContext)
        get == Op("get", Deref(found.client),
                  getGVR(group, args.version, args.kind), namespace, args.name)
    IN  IF ~IsNil(auth.err) THEN Done(m, auth, <<>>, errorResult(auth.err))
        ELSE IF namespace # NsNone
                /\ ~IsNamespaceAllowed(m.clientManager, k8sContext, namespace)
        THEN Done(m, auth, <<>>,
                  errorResult(namespaceNotAllowed(namespace, k8sContext)))
        ELSE IF ~IsNil(found.err) THEN Done(m, auth, <<>>, errorResult(found.err))
        ELSE IF reply.first = "err" THEN Done(m, auth, <<get>>, errorResult(apiError))
        ELSE Done(m, auth, <<get>>,
                  successResult(<<"Rollout Status for ", args.kind, args.name>>))

handleRestartRollout(m, request, reply) ==
    LET args == request.args
        k8sContext == getContextParam(m, args)
        group == workloadGroup(args)
        namespace == args.namespace
        auth == checkAuthorization(m, request.token, "restart_rollout", k8sContext,
                    namespace,
                    ResourceInfo(group, args.version, args.kind, args.name))
        found == GetClient(m.clientManager, k8sContext)
        patch == Op("patch", Deref(found.client),
                    getGVR(group, args.version, args.kind), namespace, args.name)
    IN  IF ~IsNil(auth.err) THEN Done(m, auth, <<>>, errorResult(auth.err))
        ELSE IF namespace # NsNone
                /\ ~IsNamespaceAllowed(m.clientManager, k8sContext, namespace)
        THEN Done(m, auth, <<>>,
                  errorResult(namespaceNotAllowed(namespace, k8sContext)))
        ELSE IF ~IsNil(found.err) THEN Done(m, auth, <<>>, errorResult(found.err))
        ELSE IF reply.first = "err"
        THEN Done(m, auth, <<patch>>, errorResult(apiError))
        ELSE Done(m, auth, <<patch>>,
                  successResult(<<"Successfully triggered restart for ",
                                  args.kind, args.name>>))

\* fmt.Sprintf("%d", int(toRevision)) over the revisions of the model
formatRevision(toRevision) ==
    CASE toRevision = 1 -> "1"
      [] toRevision = 2 -> "2"
      [] toRevision = 3 -> "3"
      [] OTHER          -> "0"

\* the inner loop of handleUndoRollout over one ReplicaSet's ownerReferences
\* [j..]: target is Nil or Some(index of the ReplicaSet chosen so far)
RECURSIVE scanOwnerRefs(_, _, _, _, _, _)
scanOwnerRefs(items, i, j, name, toRevision, target) ==
    IF j > Len(items[i].ownerReferences) THEN target
    ELSE IF items[i].ownerReferences[j] = name /\ ~IsNil(items[i].revision)
    THEN IF toRevision > 0 /\ Deref(items[i].revision) = formatRevision(toRevision)
         THEN Some(i)
         ELSE IF toRevision = 0 /\ IsNil(target)
         THEN scanOwnerRefs(items, i, j + 1, name, toRevision, Some(i))
         ELSE scanOwnerRefs(items, i, j + 1, name, toRevision, target)
    ELSE scanOwnerRefs(items, i, j + 1, name, toRevision, target)

\* the outer loop over rsList.Items[i..]
RECURSIVE scanReplicaSets(_, _, _, _, _)
scanReplicaSets(items, i, name, toRevision, target) ==
    IF i > Len(items) THEN target
    ELSE scanReplicaSets(items, i + 1, name, toRevision,
                         scanOwnerRefs(items, i, 1, name, toRevision, target))

\* targetRS = &item: the module is built with Go 1.24 or later (README,
\* Prerequisites), where each iteration has its own loop variable, so the
\* pointer keeps the chosen ReplicaSet
targetReplicaSet(items, name, toRevision) ==
    LET target == scanReplicaSets(items, 1, name, toRevision, Nil)
    IN  IF IsNil(target) THEN Nil ELSE Some(items[Deref(target)])

handleUndoRollout(m, request, reply) ==
    LET args == request.args
        k8sContext == getContextParam(m, args)
        group == workloadGroup(args)
        namespace == args.namespace
        auth == checkAuthorization(m, request.token, "undo_rollout", k8sContext,
                    namespace,
                    ResourceInfo(group, args.version, args.kind, args.name))
        found == GetClient(m.clientManager, k8sContext)
        gvr == getGVR(group, args.version, args.kind)
        get == Op("get", Deref(found.client), gvr, namespace, args.name)
        \* the list call, with the ReplicaSets the cluster answered
        list == [verb |-> "list", context |-> Deref(found.client).Context,
                 resource |-> getGVR("apps", "v1", "ReplicaSet"),
                 namespace |-> namespace, name |-> <<>>, items |-> reply.items]
        targetRS == targetReplicaSet(reply.items, args.name, args.to_revision)
        \* the Deployment's pod template is set to the chosen ReplicaSet's
        patch == [verb |-> "patch", context |-> Deref(found.client).Context,
                  resource |-> gvr, namespace |-> namespace, name |-> args.name,
                  template |-> Deref(targetRS).template]
    IN  IF ~IsNil(auth.err) THEN Done(m, auth, <<>>, errorResult(auth.err))
        ELSE IF namespace # NsNone
                /\ ~IsNamespaceAllowed(m.clientManager, k8sContext, namespace)
        THEN Done(m, auth, <<>>,
                  errorResult(namespaceNotAllowed(namespace, k8sContext)))
        ELSE IF ~IsNil(found.err) THEN Done(m, auth, <<>>, errorResult(found.err))
        ELSE IF args.kind # "Deployment"
        THEN Done(m, auth, <<>>,
                  errorResult(<<"undo rollout is only supported for Deployments">>))
        ELSE IF reply.first = "err" THEN Done(m, auth, <<get>>, errorResult(apiError))
        ELSE IF reply.second = "err"
        THEN Done(m, auth, <<get, list>>, errorResult(apiError))
        ELSE IF IsNil(targetRS)
        THEN Done(m, auth, <<get, list>>,
                  errorResult(<<"no suitable revision found for rollback">>))
        ELSE IF reply.third = "err"
        THEN Done(m, auth, <<get, list, patch>>, errorResult(apiError))
        ELSE Done(m, auth, <<get, list, patch>>,
                  successResult(<<"Successfully rolled back ", args.kind, args.name,
                                  Deref(targetRS).template>>))

(***************************************************************************)
(* list_api_resources, list_api_versions, get_cluster_info,                *)
(* list_namespaces, get_logs, exec_command, list_events                    *)
(***************************************************************************)
\* the API calls that name no resource of a group: discovery and the like
Call(verb, client, what) ==
    [verb |-> verb, context |-> client.Context,
     resource |-> [Group |-> "", Version |-> "", Resource |-> what],
     namespace |-> NsNone, name |-> <<>>]

CoreV1(resource) == [Group |-> "", Version |-> "v1", Resource |-> resource]

\* a discovery error is fatal only when no resource list came back at all
handleListAPIResources(m, request, reply) ==
    LET args == request.args
        k8sContext == getContextParam(m, args)
        auth == checkAuthorization(m, request.token, "list_api_resources",
                    k8sContext, NsNone,
                    ResourceInfo(VirtualResourceGroup, "", VirtualKindAPIDiscovery,
                                 <<>>))
        found == GetClient(m.clientManager, k8sContext)
        discover == Call("discovery", Deref(found.client), "ServerGroupsAndResources")
    IN  IF ~IsNil(auth.err) THEN Done(m, auth, <<>>, errorResult(auth.err))
        ELSE IF ~IsNil(found.err) THEN Done(m, auth, <<>>, errorResult(found.err))
        ELSE IF reply.first = "err"
        THEN Done(m, auth, <<discover>>, errorResult(apiError))
        ELSE IF reply.post = "err"
        THEN Done(m, auth, <<discover>>, errorResult(postError))
        ELSE Done(m, auth, <<discover>>, successResult(<<"yaml">>))

handleListAPIVersions(m, request, reply) ==
    LET args == request.args
        k8sContext == getContextParam(m, args)
        auth == checkAuthorization(m, request.token, "list_api_versions",
                    k8sContext, NsNone,
                    ResourceInfo(VirtualResourceGroup, "", VirtualKindAPIDiscovery,
                                 <<>>))
        found == GetClient(m.clientManager, k8sContext)
        discover == Call("discovery", Deref(found.client), "ServerGroups")
    IN  IF ~IsNil(auth.err) THEN Done(m, auth, <<>>, errorResult(auth.err))
        ELSE IF ~IsNil(found.err) THEN Done(m, auth, <<>>, errorResult(found.err))
        ELSE IF reply.first = "err"
        THEN Done(m, auth, <<discover>>, errorResult(apiError))
        ELSE IF reply.post = "err"
        THEN Done(m, auth, <<discover>>, errorResult(postError))
        ELSE Done(m, auth, <<discover>>, successResult(<<"yaml">>))

\* the node and namespace counts are best effort: a failure to list counts 0
handleGetClusterInfo(m, request, reply) ==
    LET args == request.args
        k8sContext == getContextParam(m, args)
        auth == checkAuthorization(m, request.token, "get_cluster_info",
                    k8sContext, NsNone,
                    ResourceInfo(VirtualResourceGroup, "", VirtualKindClusterInfo,
                                 <<>>))
        found == GetClient(m.clientManager, k8sContext)
        version == Call("discovery", Deref(found.client), "ServerVersion")
        nodes == Op("list", Deref(found.client), CoreV1("nodes"), NsNone, <<>>)
        namespaces == Op("list", Deref(found.client), CoreV1("namespaces"),
                         NsNone, <<>>)
    IN  IF ~IsNil(auth.err) THEN Done(m, auth, <<>>, errorResult(auth.err))
        ELSE IF ~IsNil(found.err) THEN Done(m, auth, <<>>, errorResult(found.err))
        ELSE IF reply.first = "err"
        THEN Done(m, auth, <<version>>, errorResult(apiError))
        ELSE Done(m, auth, <<version, nodes, namespaces>>,
                  successResult(<<"context: ", k8sContext,
                                  IF reply.second = "ok" THEN "nodes" ELSE "0">>))

handleListNamespaces(m, request, reply) ==
    LET args == request.args
        k8sContext == getContextParam(m, args)
        auth == checkAuthorization(m, request.token, "list_namespaces", k8sContext,
                    NsNone, ResourceInfo("", "v1", "Namespace", <<>>))
        found == GetClient(m.clientManager, k8sContext)
        list == Op("list", Deref(found.client), CoreV1("namespaces"), NsNone, <<>>)
    IN  IF ~IsNil(auth.err) THEN Done(m, auth, <<>>, errorResult(auth.err))
        ELSE IF ~IsNil(found.err) THEN Done(m, auth, <<>>, errorResult(found.err))
        ELSE IF reply.first = "err" THEN Done(m, auth, <<list>>, errorResult(apiError))
        ELSE IF reply.post = "err" THEN Done(m, auth, <<list>>, errorResult(postError))
        ELSE Done(m, auth, <<list>>, successResult(<<"yaml">>))

\* the namespace of the pod tools defaults to "default" before the checks
podNamespace(args) == IF args.namespace = NsNone THEN NsDefault ELSE args.namespace

handleGetLogs(m, request, reply) ==
    LET args == request.args
        k8sContext == getContextParam(m, args)
        namespace == podNamespace(args)
        auth == checkAuthorization(m, request.token, "get_logs", k8sContext,
                    namespace, ResourceInfo("", "v1", "Pod", args.name))
        found == GetClient(m.clientManager, k8sContext)
        logs == Op("logs", Deref(found.client), CoreV1("pods"), namespace, args.name)
    IN  IF ~IsNil(auth.err) THEN Done(m, auth, <<>>, errorResult(auth.err))
        ELSE IF ~IsNamespaceAllowed(m.clientManager, k8sContext, namespace)
        THEN Done(m, auth, <<>>,
                  errorResult(namespaceNotAllowed(namespace, k8sContext)))
        ELSE IF ~IsNil(found.err) THEN Done(m, auth, <<>>, errorResult(found.err))
        ELSE IF reply.first = "err" THEN Done(m, auth, <<logs>>, errorResult(apiError))
        ELSE Done(m, auth, <<logs>>, successResult(<<"log lines">>))

\* a command that fails in the pod is reported in a success result
handleExecCommand(m, request, reply) ==
    LET args == request.args
        k8sContext == getContextParam(m, args)
        namespace == podNamespace(args)
        auth == checkAuthorization(m, request.token, "exec_command", k8sContext,
                    namespace, ResourceInfo("", "v1", "Pod", args.name))
        found == GetClient(m.clientManager, k8sContext)
        exec == Op("exec", Deref(found.client), CoreV1("pods"), namespace, args.name)
    IN  IF ~IsNil(auth.err) THEN Done(m, auth, <<>>, errorResult(auth.err))
        ELSE IF ~IsNamespaceAllowed(m.clientManager, k8sContext, namespace)
        THEN Done(m, auth, <<>>,
                  errorResult(namespaceNotAllowed(namespace, k8sContext)))
        ELSE IF Len(args.command) = 0
        THEN Done(m, auth, <<>>, errorResult(<<"command is required">>))
        ELSE IF ~IsNil(found.err) THEN Done(m, auth, <<>>, errorResult(found.err))
        ELSE IF reply.first = "spdy"
        THEN Done(m, auth, <<>>, errorResult(<<"unable to build the executor">>))
        ELSE IF reply.first = "err"
        THEN Done(m, auth, <<exec>>,
                  successResult(<<"Command exited with error", "output">>))
        ELSE Done(m, auth, <<exec>>, successResult(<<"output">>))

handleListEvents(m, request, reply) ==
    LET args == request.args
        k8sContext == getContextParam(m, args)
        namespace == args.namespace
        auth == checkAuthorization(m, request.token, "list_events", k8sContext,
                    namespace, ResourceInfo("", "v1", "Event", <<>>))
        found == GetClient(m.clientManager, k8sContext)
        list == Op("list", Deref(found.client), CoreV1("events"), namespace, <<>>)
    IN  IF ~IsNil(auth.err) THEN Done(m, auth, <<>>, errorResult(auth.err))
        ELSE IF namespace # NsNone
                /\ ~IsNamespaceAllowed(m.clientManager, k8sContext, namespace)
        THEN Done(m, auth, <<>>,
                  errorResult(namespaceNotAllowed(namespace, k8sContext)))
        ELSE IF ~IsNil(found.err) THEN Done(m, auth, <<>>, errorResult(found.err))
        ELSE IF reply.first = "err" THEN Done(m, auth, <<list>>, errorResult(apiError))
        ELSE IF reply.post = "err" THEN Done(m, auth, <<list>>, errorResult(postError))
        ELSE Done(m, auth, <<list>>, successResult(<<"yaml">>))

(***************************************************************************)
(* tools_context.go                                                        *)
(***************************************************************************)
\* authorized against the context "" and the empty descriptor
handleGetCurrentContext(m, request, reply) ==
    LET auth == checkAuthorization(m, request.token, "get_current_context", "",
                    NsNone, EmptyResource)
        currentCtx == GetCurrentContext(m.clientManager)
    IN  IF ~IsNil(auth.err) THEN Done(m, auth, <<>>, errorResult(auth.err))
        ELSE Done(m, auth, <<>>, successResult(<<"context: ", currentCtx>>))

handleListContexts(m, request, reply) ==
    LET auth == checkAuthorization(m, request.token, "list_contexts", "",
                    NsNone, EmptyResource)
        contexts == ListContexts(m.clientManager)
        currentCtx == GetCurrentContext(m.clientManager)
    IN  IF ~IsNil(auth.err) THEN Done(m, auth, <<>>, errorResult(auth.err))
        ELSE IF reply.post = "err" THEN Done(m, auth, <<>>, errorResult(postError))
        ELSE Done(m, auth, <<>>,
                  successResult(<<"contexts: ", contexts, "current: ", currentCtx>>))

\* authorized against the context asked for; the active context changes
\* only when a client of that name is loaded
handleSwitchContext(m, request, reply) ==
    LET contextName == request.args.context_name
        auth == checkAuthorization(m, request.token, "switch_context", contextName,
                    NsNone, EmptyResource)
        oldContext == GetCurrentContext(m.clientManager)
        set == SetCurrentContext(m.clientManager, contextName)
    IN  IF ~IsNil(auth.err) THEN Done(m, auth, <<>>, errorResult(auth.err))
        ELSE IF ~IsNil(set.err) THEN Done(m, auth, <<>>, errorResult(set.err))
        ELSE [Done(m, auth, <<>>,
                   successResult(<<"Switched context from ", oldContext, " to ",
                                   contextName>>))
                EXCEPT !.clientManager = set.cm]

(***************************************************************************)
(* tools_rbac_metrics.go                                                   *)
(***************************************************************************)
\* the descriptor carries the group and the resource argument as its kind;
\* the namespace is not gated
handleCheckPermission(m, request, reply) ==
    LET args == request.args
        k8sContext == getContextParam(m, args)
        namespace == args.namespace
        auth == checkAuthorization(m, request.token, "check_permission", k8sContext,
                    namespace, ResourceInfo(args.group, "", args.resource, args.name))
        found == GetClient(m.clientManager, k8sContext)
        review == Op("create", Deref(found.client),
                     [Group |-> "authorization.k8s.io", Version |-> "v1",
                      Resource |-> "selfsubjectaccessreviews"], NsNone, <<>>)
    IN  IF ~IsNil(auth.err) THEN Done(m, auth, <<>>, errorResult(auth.err))
        ELSE IF ~IsNil(found.err) THEN Done(m, auth, <<>>, errorResult(found.err))
        ELSE IF reply.first = "err"
        THEN Done(m, auth, <<review>>, errorResult(apiError))
        ELSE Done(m, auth, <<review>>, successResult(<<"Permission Check">>))

MetricsV1beta1(resource) ==
    [Group |-> "metrics.k8s.io", Version |-> "v1beta1", Resource |-> resource]

\* authorized and gated on the namespace as given; a named pod without a
\* namespace is then read from "default"
handleGetPodMetrics(m, request, reply) ==
    LET args == request.args
        k8sContext == getContextParam(m, args)
        namespace == args.namespace
        auth == checkAuthorization(m, request.token, "get_pod_metrics", k8sContext,
                    namespace, ResourceInfo("", "", "PodMetrics", args.name))
        found == GetClient(m.clientManager, k8sContext)
        client == Deref(found.client)
        read == IF args.name # <<>>
                THEN Op("get", client, MetricsV1beta1("pods"),
                        IF namespace = NsNone THEN NsDefault ELSE namespace,
                        args.name)
                ELSE Op("list", client, MetricsV1beta1("pods"), namespace, <<>>)
    IN  IF ~IsNil(auth.err) THEN Done(m, auth, <<>>, errorResult(auth.err))
        ELSE IF namespace # NsNone
                /\ ~IsNamespaceAllowed(m.clientManager, k8sContext, namespace)
        THEN Done(m, auth, <<>>,
                  errorResult(namespaceNotAllowed(namespace, k8sContext)))
        ELSE IF ~IsNil(found.err) THEN Done(m, auth, <<>>, errorResult(found.err))
        ELSE IF ~client.MetricsClient
        THEN Done(m, auth, <<>>,
                  errorResult(<<"metrics-server is not available in this cluster">>))
        ELSE IF reply.first = "err" THEN Done(m, auth, <<read>>, errorResult(apiError))
        ELSE IF reply.post = "err" THEN Done(m, auth, <<read>>, errorResult(postError))
        ELSE Done(m, auth, <<read>>, successResult(<<"yaml">>))

handleGetNodeMetrics(m, request, reply) ==
    LET args == request.args
        k8sContext == getContextParam(m, args)
        auth == checkAuthorization(m, request.token, "get_node_metrics", k8sContext,
                    NsNone, ResourceInfo("", "", "NodeMetrics", args.name))
        found == GetClient(m.clientManager, k8sContext)
        client == Deref(found.client)
        read == Op(IF args.name # <<>> THEN "get" ELSE "list", client,
                   MetricsV1beta1("nodes"), NsNone, args.name)
    IN  IF ~IsNil(auth.err) THEN Done(m, auth, <<>>, errorResult(auth.err))
        ELSE IF ~IsNil(found.err) THEN Done(m, auth, <<>>, errorResult(found.err))
        ELSE IF ~client.MetricsClient
        THEN Done(m, auth, <<>>,
                  errorResult(<<"metrics-server is not available in this cluster">>))
        ELSE IF reply.first = "err" THEN Done(m, auth, <<read>>, errorResult(apiError))
        ELSE IF reply.post = "err" THEN Done(m, auth, <<read>>, errorResult(postError))
        ELSE Done(m, auth, <<read>>, successResult(<<"yaml">>))

(***************************************************************************)
(* diff_manifest                                                           *)
(***************************************************************************)
\* an object that is not in the cluster is reported in a success result
handleDiffManifest(m, request, reply) ==
    LET args == request.args
        k8sContext == getContextParam(m, args)
        parsed == yamlUnmarshal(args.manifest)
        obj == parsed.obj
        gvk == GroupVersionKind(obj)
        namespace == IF args.namespace # NsNone THEN args.namespace
                     ELSE obj.namespace
        auth == checkAuthorization(m, request.token, "diff_manifest", k8sContext,
                    namespace,
                    ResourceInfo(gvk.Group, gvk.Version, gvk.Kind, obj.name))
        found == GetClient(m.clientManager, k8sContext)
        get == Op("get", Deref(found.client),
                  getGVR(gvk.Group, gvk.Version, gvk.Kind), namespace, obj.name)
    IN  IF parsed.err
        THEN Done(m, NotChecked, <<>>, errorResult(<<"failed to parse manifest">>))
        ELSE IF ~IsNil(auth.err) THEN Done(m, auth, <<>>, errorResult(auth.err))
        ELSE IF namespace # NsNone
                /\ ~IsNamespaceAllowed(m.clientManager, k8sContext, namespace)
        THEN Done(m, auth, <<>>,
                  errorResult(namespaceNotAllowed(namespace, k8sContext)))
        ELSE IF ~IsNil(found.err) THEN Done(m, auth, <<>>, errorResult(found.err))
        ELSE IF reply.first = "notfound"
        THEN Done(m, auth, <<get>>,
                  successResult(<<"This manifest would CREATE a new resource.">>))
        ELSE IF reply.first = "err" THEN Done(m, auth, <<get>>, errorResult(apiError))
        ELSE Done(m, auth, <<get>>, successResult(<<"diff">>))

(***************************************************************************)
(* Configurations of the model                                             *)
(***************************************************************************)
AllResources  == ResourceRule(<<"*">>, <<>>, <<"*">>, <<>>, <<>>)
CoreSecrets   == ResourceRule(<<"">>, <<>>, <<"Secret">>, <<>>, <<>>)

Allow(tools, contexts, resources) == Some(ToolContextRule(tools, contexts, resources))
Deny(tools, contexts, resources)  == Some(ToolContextRule(tools, contexts, resources))

\* README quick start "allow-all": everything, for everyone
PAllowAll == AuthorizationPolicy("allow-all", ExprTrue,
                Allow(<<"*">>, <<"*">>, <<>>), Nil)
\* evaluator_test.go "test-policy": all resources but core Secrets
PNoSecrets == AuthorizationPolicy("no-secrets", ExprTrue,
                Allow(<<"*">>, <<"*">>, <<AllResources>>),
                Deny(<<>>, <<>>, <<CoreSecrets>>))
PGetDev == AuthorizationPolicy("get-dev", ExprTrue,
                Allow(<<"get_resource">>, <<"dev">>, <<>>), Nil)
PDeleteProd == AuthorizationPolicy("delete-prod", ExprTrue,
                Allow(<<"delete_resource">>, <<"prod">>, <<>>), Nil)
\* README "developers-limited": wildcard allow with listed denies
PStarMinus == AuthorizationPolicy("star-minus", ExprTrue,
                Allow(<<"*">>, <<"*">>, <<>>),
                Deny(<<"delete_resource">>, <<"prod">>, <<>>))
\* the same with the allow side listed token by token
PListMinus == AuthorizationPolicy("list-minus", ExprTrue,
                Allow(<<"get_resource", "delete_resource">>, <<"dev", "prod">>, <<>>),
                Deny(<<"delete_resource">>, <<"prod">>, <<>>))
PDenyAllTools == AuthorizationPolicy("deny-all-tools", ExprTrue,
                Nil, Deny(<<"*">>, <<>>, <<>>))
\* CONFIG_DESIGN "global-no-exec-prod": a deny-only policy for everyone
PDenyDelete == AuthorizationPolicy("deny-delete", ExprTrue,
                Nil, Deny(<<"delete_resource">>, <<>>, <<>>))
PDenySecrets == AuthorizationPolicy("deny-secrets", ExprTrue,
                Nil, Deny(<<>>, <<>>, <<CoreSecrets>>))
\* README "sre-admins": matches on a claim, errors when the claim is missing
PSre == AuthorizationPolicy("sre-admins", ExprSre,
                Allow(<<"*">>, <<"*">>, <<>>), Nil)
\* the same predicate guarding a policy that denies every tool
PSreDenyAll == AuthorizationPolicy("sre-deny-all", ExprSre,
                Nil, Deny(<<"*">>, <<>>, <<>>))
\* a match expression that yields a string
PString == AuthorizationPolicy("not-a-bool", ExprString,
                Allow(<<"*">>, <<"*">>, <<>>), Nil)
\* a match expression that does not compile
PBroken == AuthorizationPolicy("broken", ExprBroken,
                Allow(<<"*">>, <<"*">>, <<>>), Nil)

PolicyUniverse ==
    {PAllowAll, PNoSecrets, PGetDev, PDeleteProd, PStarMinus, PListMinus,
     PDenyAllTools, PDenyDelete, PDenySecrets, PSre, PSreDenyAll, PString}

\* policy lists without repetition, up to MaxPolicies long
PolicyLists ==
    UNION {{l \in [1..n -> PolicyUniverse] :
                \A i, j \in 1..n : l[i] = l[j] => i = j} : n \in 0..MaxPolicies}

ForwardedHeaders == {"", "X-Forwarded-Jwt"}

\* no Kubernetes context configured
NoKubernetes == KubernetesConfig("", <<>>)

Configuration(allowAnonymous, policies, forwardedHeader, kubernetes) ==
    [Authorization |-> [AllowAnonymous |-> allowAnonymous, Policies |-> policies],
     ForwardedHeader |-> forwardedHeader,
     Kubernetes |-> kubernetes]

(***************************************************************************)
(* SpecAuthz: an evaluator built from any configuration of the model and   *)
(* asked, through checkAuthorization, about any request of the model       *)
(***************************************************************************)
Idle == [op |-> "idle"]

InitAuthz ==
    /\ config \in {Configuration(a, l, h, NoKubernetes) :
                        a \in BOOLEAN, l \in PolicyLists, h \in ForwardedHeaders}
    /\ authz = NewEvaluator(config.Authorization).evaluator
    /\ clientManager = Nil
    /\ phase = "serving"
    /\ call = Idle
    /\ machine = Nil
    /\ goroutines = Nil

\* one call of checkAuthorization against the evaluator
AuthzCheck ==
    /\ call = Idle
    /\ \E token \in Tokens,
          tool \in {"get_resource", "delete_resource"},
          k8sContext \in {"dev", "prod"},
          namespace \in {NsNone, NsDefault},
          resource \in {ResourceInfo("", "v1", "Secret", NameDb),
                        ResourceInfo("", "v1", "ConfigMap", NameDb)} :
            LET r == checkAuthorization(Manager, token, tool, k8sContext,
                                        namespace, resource)
            IN  call' = [op |-> "checkAuthorization", token |-> token,
                         req |-> Deref(r.req), allowed |-> r.allowed, err |-> r.err]
    /\ UNCHANGED <<config, authz, clientManager, phase, machine, goroutines>>

AuthzReturn ==
    /\ call.op = "checkAuthorization"
    /\ call' = Idle
    /\ UNCHANGED <<config, authz, clientManager, phase, machine, goroutines>>

NextAuthz == AuthzCheck \/ AuthzReturn

SpecAuthz == InitAuthz /\ [][NextAuthz]_vars

(***************************************************************************)
(* manager.go and cmd/main.go: the tools of the server and its start-up    *)
(***************************************************************************)
NewManager(deps) ==
    [config |-> deps.Config, clientManager |-> deps.ClientManager,
     authz |-> deps.Authz]

\* the Manager main hands the tools: built only when there is a client manager
k8sManager ==
    NewManager([Config |-> config, ClientManager |-> Deref(clientManager),
                Authz |-> authz])

\* the tools RegisterAll registers
ToolNames ==
    {"get_resource", "list_resources", "describe_resource",
     "apply_manifest", "patch_resource", "delete_resource", "delete_resources",
     "scale_resource", "get_rollout_status", "restart_rollout", "undo_rollout",
     "get_logs", "exec_command",
     "list_api_resources", "list_api_versions", "get_cluster_info",
     "list_namespaces",
     "get_current_context", "list_contexts", "switch_context",
     "list_events", "check_permission",
     "get_pod_metrics", "get_node_metrics", "diff_manifest"}

\* the Kubernetes side of the configurations of the model: dev bars one
\* namespace, prod and ops admit one namespace only
CtxDev  == KubernetesContextConfig("dev", <<>>, <<NsTeamA>>)
CtxProd == KubernetesContextConfig("prod", <<NsDefault>>, <<>>)
\* a context that admits one namespace which is not "default"
CtxOps  == KubernetesContextConfig("ops", <<NsTeamA>>, <<>>)

KubernetesConfigs ==
    {KubernetesConfig("dev", <<CtxDev, CtxProd>>),
     KubernetesConfig("", <<CtxDev, CtxProd>>),
     KubernetesConfig("dev", <<CtxDev, CtxDev>>),
     KubernetesConfig("ops", <<CtxDev, CtxOps>>),
     NoKubernetes}

\* the authorization side: allow_anonymous, the policies, the forwarded header
ServerAuthorizations ==
    {<<FALSE, <<>>, "X-Forwarded-Jwt">>,
     <<FALSE, <<PBroken>>, "X-Forwarded-Jwt">>,
     <<FALSE, <<PAllowAll, PBroken>>, "X-Forwarded-Jwt">>,
     <<FALSE, <<PAllowAll>>, "X-Forwarded-Jwt">>,
     <<TRUE, <<PAllowAll>>, "">>,
     <<FALSE, <<PNoSecrets>>, "X-Forwarded-Jwt">>,
     <<FALSE, <<PGetDev>>, "X-Forwarded-Jwt">>,
     <<TRUE, <<PStarMinus>>, "X-Forwarded-Jwt">>,
     <<FALSE, <<PSre>>, "X-Forwarded-Jwt">>}

ServerConfigs ==
    {Configuration(a[1], a[2], a[3], k) :
        a \in ServerAuthorizations, k \in KubernetesConfigs}

\* what the machine gives start-up: readable kubeconfigs or not, a metrics
\* API or not
Environments ==
    {[kubeconfig |-> "ok", metrics |-> TRUE],
     [kubeconfig |-> "ok", metrics |-> FALSE],
     [kubeconfig |-> "err", metrics |-> FALSE]}

Init ==
    /\ config \in ServerConfigs
    /\ authz = Nil
    /\ clientManager = Nil
    /\ phase = "main"
    /\ call = Idle
    /\ machine = Nil
    /\ goroutines = Nil

\* main, steps 4 to 6: the client manager when contexts are configured, the
\* evaluator when policies are configured; a failure of either is logged and
\* start-up goes on without it
main ==
    /\ phase = "main"
    /\ \E env \in Environments :
        LET made  == IF Len(config.Kubernetes.Contexts) > 0
                     THEN NewClientManager(config.Kubernetes, env)
                     ELSE [cm |-> Nil, err |-> Nil]
            built == IF Len(config.Authorization.Policies) > 0
                     THEN NewEvaluator(config.Authorization)
                     ELSE [evaluator |-> Nil, err |-> FALSE]
        IN  /\ clientManager' = made.cm
            /\ authz' = built.evaluator
    /\ phase' = "serving"
    /\ UNCHANGED <<config, call, machine, goroutines>>

\* the tools are registered only when there is a client manager
Registered == phase = "serving" /\ ~IsNil(clientManager)

\* the forwarded tokens, contexts and namespaces the callers of the model send
ServerTokens  == {TokAbsent, TokSre}
ContextArgs   == {"", "prod", "qa"}
NamespaceArgs == {NsNone, NsDefault, NsTeamA}

Replies(firsts, seconds, posts) ==
    [first : firsts, second : seconds, post : posts]

\* a registered tool serves one invocation: the handler runs to its result
Invoke(tool, request, out) ==
    /\ call' = [op |-> tool, token |-> request.token, args |-> request.args,
                oldContext |-> GetCurrentContext(Deref(clientManager)),
                authz |-> out.authz, ops |-> out.ops, result |-> out.result]
    /\ clientManager' = Some(out.clientManager)
    /\ UNCHANGED <<config, authz, phase, machine, goroutines>>

(***************************************************************************)
(* The arguments several tools share, and the ReplicaSets of undo_rollout   *)
(***************************************************************************)
ResourceArgs ==
    [context : ContextArgs, group : {""}, version : {"v1"},
     kind : {"Secret", "ConfigMap"}, name : {NameDb}, namespace : NamespaceArgs]

ManifestArgs ==
    [context : ContextArgs,
     manifest : {"secret-in-default", "configmap-no-namespace",
                 "deployment-in-team-a", "not: [yaml"},
     namespace : {NsNone, NsDefault}]

WorkloadArgs ==
    [context : ContextArgs, group : {"", "apps"}, version : {"v1"},
     kind : {"Deployment"}, name : {NameDb}, namespace : NamespaceArgs]

\* the ReplicaSets the cluster may list for undo_rollout
ReplicaSet(ownerReferences, revision, template) ==
    [ownerReferences |-> ownerReferences, revision |-> revision,
     template |-> template]

NameWeb == <<"w", "e", "b">>

RsDb1  == ReplicaSet(<<NameDb>>, Some("1"), "template-1")
RsDb2  == ReplicaSet(<<NameDb>>, Some("2"), "template-2")
RsDb3  == ReplicaSet(<<NameDb>>, Some("3"), "template-3")
RsWeb2 == ReplicaSet(<<NameWeb>>, Some("2"), "template-web")
RsBare == ReplicaSet(<<NameDb>>, Nil, "template-bare")

ClusterArgs == [context : ContextArgs]

NoArgs == {[context |-> ""]}

(***************************************************************************)
(* One action per registered tool                                          *)
(***************************************************************************)
get_resource ==
    /\ Registered /\ call = Idle
    /\ \E token \in ServerTokens, args \in ResourceArgs,
          reply \in Replies({"ok", "err"}, {"ok"}, {"ok", "err"}) :
            LET request == [token |-> token, args |-> args]
            IN  Invoke("get_resource", request, handleGetResource(k8sManager, request, reply))

list_resources ==
    /\ Registered /\ call = Idle
    /\ \E token \in ServerTokens,
          args \in [context : ContextArgs, group : {""}, version : {"v1"},
                    kind : {"Secret", "ConfigMap"}, namespace : NamespaceArgs],
          reply \in Replies({"ok", "err"}, {"ok"}, {"ok", "err"}) :
            LET request == [token |-> token, args |-> args]
            IN  Invoke("list_resources", request, handleListResources(k8sManager, request, reply))

describe_resource ==
    /\ Registered /\ call = Idle
    /\ \E token \in ServerTokens, args \in ResourceArgs,
          reply \in Replies({"ok", "err"}, {"ok", "err"}, {"ok"}) :
            LET request == [token |-> token, args |-> args]
            IN  Invoke("describe_resource", request, handleDescribeResource(k8sManager, request, reply))

apply_manifest ==
    /\ Registered /\ call = Idle
    /\ \E token \in ServerTokens, args \in ManifestArgs,
          reply \in Replies({"ok", "exists", "err"}, {"ok", "err"}, {"ok"}) :
            LET request == [token |-> token, args |-> args]
            IN  Invoke("apply_manifest", request, handleApplyManifest(k8sManager, request, reply))

patch_resource ==
    /\ Registered /\ call = Idle
    /\ \E token \in ServerTokens,
          args \in [context : {"", "prod"}, group : {""}, version : {"v1"},
                    kind : {"ConfigMap"}, name : {NameDb}, namespace : NamespaceArgs,
                    patch_type : {"merge", "replace"}, patch : {"{}", "a: 1", ":"}],
          reply \in Replies({"ok", "err"}, {"ok"}, {"ok"}) :
            LET request == [token |-> token, args |-> args]
            IN  Invoke("patch_resource", request, handlePatchResource(k8sManager, request, reply))

delete_resource ==
    /\ Registered /\ call = Idle
    /\ \E token \in ServerTokens, args \in ResourceArgs,
          reply \in Replies({"ok", "err"}, {"ok"}, {"ok"}) :
            LET request == [token |-> token, args |-> args]
            IN  Invoke("delete_resource", request, handleDeleteResource(k8sManager, request, reply))

delete_resources ==
    /\ Registered /\ call = Idle
    /\ \E token \in ServerTokens,
          args \in [context : ContextArgs, group : {""}, version : {"v1"},
                    kind : {"Secret", "ConfigMap"}, namespace : NamespaceArgs,
                    label_selector : {"", "app=db"}, field_selector : {""}],
          reply \in Replies({"ok", "err"}, {"ok"}, {"ok"}) :
            LET request == [token |-> token, args |-> args]
            IN  Invoke("delete_resources", request, handleDeleteResources(k8sManager, request, reply))

scale_resource ==
    /\ Registered /\ call = Idle
    /\ \E token \in ServerTokens, args \in WorkloadArgs,
          reply \in Replies({"ok", "err"}, {"ok"}, {"ok"}) :
            LET request == [token |-> token, args |-> args]
            IN  Invoke("scale_resource", request, handleScaleResource(k8sManager, request, reply))

get_rollout_status ==
    /\ Registered /\ call = Idle
    /\ \E token \in ServerTokens, args \in WorkloadArgs,
          reply \in Replies({"ok", "err"}, {"ok"}, {"ok"}) :
            LET request == [token |-> token, args |-> args]
            IN  Invoke("get_rollout_status", request, handleGetRolloutStatus(k8sManager, request, reply))

restart_rollout ==
    /\ Registered /\ call = Idle
    /\ \E token \in ServerTokens, args \in WorkloadArgs,
          reply \in Replies({"ok", "err"}, {"ok"}, {"ok"}) :
            LET request == [token |-> token, args |-> args]
            IN  Invoke("restart_rollout", request, handleRestartRollout(k8sManager, request, reply))

undo_rollout ==
    /\ Registered /\ call = Idle
    /\ \E token \in ServerTokens,
          args \in [context : {"", "prod"}, group : {""}, version : {"v1"},
                    kind : {"Deployment", "StatefulSet"}, name : {NameDb},
                    namespace : {NsNone, NsDefault}, to_revision : {0, 2}],
          reply \in [first : {"ok", "err"}, second : {"ok", "err"},
                     third : {"ok", "err"},
                     items : {<<>>, <<RsDb1, RsDb2, RsDb3>>, <<RsDb3, RsDb2, RsDb1>>,
                              <<RsWeb2, RsDb1>>, <<RsBare, RsWeb2>>}] :
            LET request == [token |-> token, args |-> args]
            IN  Invoke("undo_rollout", request,
                       handleUndoRollout(k8sManager, request, reply))

get_logs ==
    /\ Registered /\ call = Idle
    /\ \E token \in ServerTokens,
          args \in [context : ContextArgs, name : {NameDb}, namespace : NamespaceArgs],
          reply \in Replies({"ok", "err"}, {"ok"}, {"ok"}) :
            LET request == [token |-> token, args |-> args]
            IN  Invoke("get_logs", request, handleGetLogs(k8sManager, request, reply))

exec_command ==
    /\ Registered /\ call = Idle
    /\ \E token \in ServerTokens,
          args \in [context : ContextArgs, name : {NameDb}, namespace : NamespaceArgs,
                    command : {<<>>, <<"ls">>}],
          reply \in Replies({"ok", "spdy", "err"}, {"ok"}, {"ok"}) :
            LET request == [token |-> token, args |-> args]
            IN  Invoke("exec_command", request, handleExecCommand(k8sManager, request, reply))

list_api_resources ==
    /\ Registered /\ call = Idle
    /\ \E token \in ServerTokens, args \in ClusterArgs,
          reply \in Replies({"ok", "partial", "err"}, {"ok"}, {"ok", "err"}) :
            LET request == [token |-> token, args |-> args]
            IN  Invoke("list_api_resources", request, handleListAPIResources(k8sManager, request, reply))

list_api_versions ==
    /\ Registered /\ call = Idle
    /\ \E token \in ServerTokens, args \in ClusterArgs,
          reply \in Replies({"ok", "err"}, {"ok"}, {"ok", "err"}) :
            LET request == [token |-> token, args |-> args]
            IN  Invoke("list_api_versions", request, handleListAPIVersions(k8sManager, request, reply))

get_cluster_info ==
    /\ Registered /\ call = Idle
    /\ \E token \in ServerTokens, args \in ClusterArgs,
          reply \in Replies({"ok", "err"}, {"ok", "err"}, {"ok"}) :
            LET request == [token |-> token, args |-> args]
            IN  Invoke("get_cluster_info", request, handleGetClusterInfo(k8sManager, request, reply))

list_namespaces ==
    /\ Registered /\ call = Idle
    /\ \E token \in ServerTokens, args \in ClusterArgs,
          reply \in Replies({"ok", "err"}, {"ok"}, {"ok", "err"}) :
            LET request == [token |-> token, args |-> args]
            IN  Invoke("list_namespaces", request, handleListNamespaces(k8sManager, request, reply))

get_current_context ==
    /\ Registered /\ call = Idle
    /\ \E token \in ServerTokens, args \in NoArgs,
          reply \in Replies({"ok"}, {"ok"}, {"ok"}) :
            LET request == [token |-> token, args |-> args]
            IN  Invoke("get_current_context", request, handleGetCurrentContext(k8sManager, request, reply))

list_contexts ==
    /\ Registered /\ call = Idle
    /\ \E token \in ServerTokens, args \in NoArgs,
          reply \in Replies({"ok"}, {"ok"}, {"ok", "err"}) :
            LET request == [token |-> token, args |-> args]
            IN  Invoke("list_contexts", request, handleListContexts(k8sManager, request, reply))

switch_context ==
    /\ Registered /\ call = Idle
    /\ \E token \in ServerTokens,
          args \in [context_name : {"", "dev", "prod", "qa"}],
          reply \in Replies({"ok"}, {"ok"}, {"ok"}) :
            LET request == [token |-> token, args |-> args]
            IN  Invoke("switch_context", request, handleSwitchContext(k8sManager, request, reply))

list_events ==
    /\ Registered /\ call = Idle
    /\ \E token \in ServerTokens,
          args \in [context : ContextArgs, namespace : NamespaceArgs],
          reply \in Replies({"ok", "err"}, {"ok"}, {"ok", "err"}) :
            LET request == [token |-> token, args |-> args]
            IN  Invoke("list_events", request, handleListEvents(k8sManager, request, reply))

check_permission ==
    /\ Registered /\ call = Idle
    /\ \E token \in ServerTokens,
          args \in [context : ContextArgs, verb : {"get"}, group : {"", "apps"},
                    resource : {"secrets"}, name : {<<>>}, namespace : NamespaceArgs],
          reply \in Replies({"ok", "err"}, {"ok"}, {"ok"}) :
            LET request == [token |-> token, args |-> args]
            IN  Invoke("check_permission", request, handleCheckPermission(k8sManager, request, reply))

get_pod_metrics ==
    /\ Registered /\ call = Idle
    /\ \E token \in ServerTokens,
          args \in [context : ContextArgs, name : {<<>>, NameDb}, namespace : NamespaceArgs],
          reply \in Replies({"ok", "err"}, {"ok"}, {"ok", "err"}) :
            LET request == [token |-> token, args |-> args]
            IN  Invoke("get_pod_metrics", request, handleGetPodMetrics(k8sManager, request, reply))

get_node_metrics ==
    /\ Registered /\ call = Idle
    /\ \E token \in ServerTokens,
          args \in [context : ContextArgs, name : {<<>>, NameDb}],
          reply \in Replies({"ok", "err"}, {"ok"}, {"ok", "err"}) :
            LET request == [token |-> token, args |-> args]
            IN  Invoke("get_node_metrics", request, handleGetNodeMetrics(k8sManager, request, reply))

diff_manifest ==
    /\ Registered /\ call = Idle
    /\ \E token \in ServerTokens, args \in ManifestArgs,
          reply \in Replies({"ok", "notfound", "err"}, {"ok"}, {"ok"}) :
            LET request == [token |-> token, args |-> args]
            IN  Invoke("diff_manifest", request, handleDiffManifest(k8sManager, request, reply))

\* the result goes back to the caller
Return ==
    /\ call.op \in ToolNames
    /\ call' = Idle
    /\ UNCHANGED <<config, authz, clientManager, phase, machine, goroutines>>

Next ==
    \/ main
    \/ get_resource
    \/ list_resources
    \/ describe_resource
    \/ apply_manifest
    \/ patch_resource
    \/ delete_resource
    \/ delete_resources
    \/ scale_resource
    \/ get_rollout_status
    \/ restart_rollout
    \/ undo_rollout
    \/ get_logs
    \/ exec_command
    \/ list_api_resources
    \/ list_api_versions
    \/ get_cluster_info
    \/ list_namespaces
    \/ get_current_context
    \/ list_contexts
    \/ switch_context
    \/ list_events
    \/ check_permission
    \/ get_pod_metrics
    \/ get_node_metrics
    \/ diff_manifest
    \/ Return

Spec == Init /\ [][Next]_vars

(***************************************************************************)
(* Vocabulary of the properties of SpecAuthz                               *)
(***************************************************************************)
InAuthzCall == call.op = "checkAuthorization"

\* the evaluator's policy list and the facts of the request being decided
Policies    == config.Authorization.Policies
CallFacts   == evalContext(mappedRequest(call.req))
Matched(i)  == policyMatches(Policies[i], CallFacts)

\* the anonymous gate lets the request through to the policies
PastAnonymousGate ==
    PayloadLen(call.req.Payload) > 0 \/ config.Authorization.AllowAnonymous

\* an evaluator over the given policy list, with the configured anonymous flag
EvaluatorOf(policies) ==
    [config |-> [config.Authorization EXCEPT !.Policies = policies],
     compiledPolicies |-> policies]

\* the decision the policy at position i gives when it is the only policy
AllowedAlone(i) == Evaluate(EvaluatorOf(<<Policies[i]>>), call.req)

\* a token is three dot-separated segments whose middle one decodes to claims
DotPositions(token) == {i \in 1..Len(token) : token[i] = "."}
WellFormedToken(token) ==
    /\ Cardinality(DotPositions(token)) = 2
    /\ LET first  == CHOOSE i \in DotPositions(token) :
                        \A j \in DotPositions(token) : i <= j
           second == CHOOSE i \in DotPositions(token) :
                        \A j \in DotPositions(token) : j <= i
           middle == SubSeq(token, first + 1, second - 1)
       IN  /\ ~base64Decode(middle).err
           /\ ~jsonUnmarshal(base64Decode(middle).bytes).err

(***************************************************************************)
(* C2: a request without identity claims is denied when allow_anonymous is *)
(* false, whatever the policies; the claims are empty whenever the         *)
(* forwarded header is unconfigured or absent or the token is not three    *)
(* segments with a decodable middle one; with allow_anonymous true the     *)
(* allow-all policy allows the same request.                               *)
(***************************************************************************)
C2_AnonymousDenied ==
    InAuthzCall =>
        /\ (config.ForwardedHeader = "" \/ call.token = TokAbsent
                \/ ~WellFormedToken(call.token))
              => PayloadLen(call.req.Payload) = 0
        /\ (PayloadLen(call.req.Payload) = 0 /\ ~config.Authorization.AllowAnonymous)
              => (~call.allowed /\ ~IsNil(call.err))
        /\ (PayloadLen(call.req.Payload) = 0 /\ config.Authorization.AllowAnonymous
                /\ Policies = <<PAllowAll>>)
              => (call.allowed /\ IsNil(call.err))

\* a malformed token against the allow-all policy, anonymous not allowed
C2_Witness ==
    /\ InAuthzCall
    /\ config.ForwardedHeader # ""
    /\ call.token = TokBadB64
    /\ ~config.Authorization.AllowAnonymous
    /\ Policies = <<PAllowAll>>
    /\ call.req.Tool = "get_resource" /\ call.req.Context = "dev"
    /\ ~call.allowed

(***************************************************************************)
(* C3: deny by default.  A request that no policy's predicate matches is   *)
(* denied, an empty policy list included.                                  *)
(***************************************************************************)
C3_DenyByDefault ==
    (InAuthzCall /\ \A i \in 1..Len(Policies) : ~Matched(i)) => ~call.allowed

\* past the anonymous gate, with a policy configured whose predicate errors
C3_Witness ==
    /\ InAuthzCall
    /\ PastAnonymousGate
    /\ Policies = <<PSre>>
    /\ call.req.Payload = SubPayload
    /\ ~call.allowed

(***************************************************************************)
(* C5: deny wins on resources.  When a matching policy has a deny resource *)
(* rule matching the descriptor and namespace the request is denied,       *)
(* whatever any policy allows; under the all-but-Secrets policy the same   *)
(* request for a ConfigMap is allowed.                                     *)
(***************************************************************************)
DenyRuleHits(i) ==
    /\ Matched(i)
    /\ ~IsNil(Policies[i].Deny)
    /\ \E k \in 1..Len(Deref(Policies[i].Deny).Resources) :
            matchesResourceRule(Deref(Policies[i].Deny).Resources[k],
                                CallFacts.resource, CallFacts.namespace)

MatchingPolicies == {i \in 1..Len(Policies) : Matched(i)}

\* the tokens a policy's deny fragment lists
DenyTools(i) ==
    IF IsNil(Policies[i].Deny) THEN {} ELSE SeqToSet(Deref(Policies[i].Deny).Tools)
DenyContexts(i) ==
    IF IsNil(Policies[i].Deny) THEN {} ELSE SeqToSet(Deref(Policies[i].Deny).Contexts)

\* the accumulator after folding the policy at position i alone
PermissionsAlone(i) == effectivePermissions(EvaluatorOf(<<Policies[i]>>), call.req)

\* the accumulator after folding the whole configured list
PermissionsOfCall == effectivePermissions(EvaluatorOf(Policies), call.req)

ToolAdmitted(perms) ==
    /\ "_denied_*" \notin perms.AllowedTools
    /\ ("*" \in perms.AllowedTools \/ call.req.Tool \in perms.AllowedTools)
\* no matching policy has a deny resource rule covering the request
NoDenyRuleHits == \A i \in 1..Len(Policies) : ~DenyRuleHits(i)

(***************************************************************************)
(* C6: the effective permissions are the union of the per-policy ones: a   *)
(* request is allowed only if some matching policy, taken on its own,      *)
(* allows its tool, context and resource together.                         *)
(***************************************************************************)
C6_UnionOfPolicies ==
    (InAuthzCall /\ call.allowed) => \E i \in MatchingPolicies : AllowedAlone(i)

(***************************************************************************)
(* C7: most permissive wins.  A request that a matching policy allows when *)
(* evaluated alone is allowed against any list containing that policy      *)
(* (stated here for the requests no deny resource rule covers).            *)
(***************************************************************************)
C7_MostPermissiveWins ==
    (InAuthzCall /\ NoDenyRuleHits /\ \E i \in MatchingPolicies : AllowedAlone(i))
        => call.allowed

(***************************************************************************)
(* C8: allow minus deny within one policy.  When exactly one policy        *)
(* matches, a request whose tool is listed in that policy's deny.tools, or *)
(* whose context is listed in its deny.contexts, is denied, also when the  *)
(* policy's allow list is the wildcard.                                    *)
(***************************************************************************)
C8_AllowMinusDeny ==
    InAuthzCall =>
        \A i \in MatchingPolicies :
            (MatchingPolicies = {i}
                /\ (call.req.Tool \in DenyTools(i) \/ call.req.Context \in DenyContexts(i)))
            => ~call.allowed

(***************************************************************************)
(* C9: a matching policy whose deny.tools contains * removes only its own  *)
(* contribution: the request is denied when no other matching policy       *)
(* allows it, and allowed when another matching policy allows it on its    *)
(* own, whichever of the two comes first.                                  *)
(***************************************************************************)
C9_WildcardDenyIsLocal ==
    InAuthzCall =>
        \A i \in MatchingPolicies :
            "*" \in DenyTools(i) =>
                /\ (\A j \in MatchingPolicies \ {i} : ~AllowedAlone(j)) => ~call.allowed
                /\ (NoDenyRuleHits /\ \E j \in MatchingPolicies \ {i} : AllowedAlone(j))
                        => call.allowed

(***************************************************************************)
(* C10: when matching policy A admits tool T and a different matching      *)
(* policy B lists T in deny.tools, with no wildcard deny anywhere, T stays *)
(* in the effective allow set; and the request for T is allowed when A     *)
(* alone allows it and no deny resource rule covers it.                    *)
(***************************************************************************)
C10_DenyIsPerPolicy ==
    InAuthzCall =>
        \A a, b \in MatchingPolicies :
            (/\ a # b
             /\ ToolAdmitted(PermissionsAlone(a))
             /\ call.req.Tool \in DenyTools(b)
             /\ \A k \in MatchingPolicies :
                    "*" \notin DenyTools(k) /\ "*" \notin DenyContexts(k))
            => /\ ToolAdmitted(PermissionsOfCall)
               /\ (AllowedAlone(a) /\ NoDenyRuleHits /\ DenyContexts(b) = {})
                        => call.allowed

(***************************************************************************)
(* Vocabulary of the properties of Spec                                    *)
(***************************************************************************)
InToolCall == call.op \in ToolNames

\* the invocation changed the active context
ContextMoved == GetCurrentContext(Deref(clientManager)) # call.oldContext

\* main could not hand the tools an evaluator
EvaluatorMissing ==
    \/ Len(config.Authorization.Policies) = 0
    \/ \E i \in 1..Len(config.Authorization.Policies) :
            ~celCompiles(config.Authorization.Policies[i].Expression)

C4_NoEvaluatorDeniesAll ==
    (InToolCall /\ EvaluatorMissing) =>
        /\ call.result.IsError
        /\ call.ops = <<>>
        /\ ~ContextMoved

(***************************************************************************)
(* Vocabulary of the claims about the order and the votes of the policies  *)
(***************************************************************************)
\* the orders a list of n policies can be written in
Orders(n) ==
    {p \in [1..n -> 1..n] : \A i, j \in 1..n : p[i] = p[j] => i = j}

\* the configured list written in the order p
Reordered(p) == [i \in 1..Len(Policies) |-> Policies[p[i]]]

\* the configured list without the policy at position i
Without(i) == SubSeq(Policies, 1, i - 1) \o SubSeq(Policies, i + 1, Len(Policies))

\* the decision of an evaluator over another policy list, for the same request
DecisionOver(policies) == Evaluate(EvaluatorOf(policies), call.req)

\* the policy's predicate raises, or yields a value that is not a boolean
DoesNotVote(i) ==
    LET out == celEval(Policies[i].Expression, CallFacts)
    IN  out.err \/ ~out.isBool

(***************************************************************************)
(* C11: policy order is irrelevant.  For every request the decision is the *)
(* same for every permutation of the configured policy list.               *)
(***************************************************************************)
C11_OrderIrrelevant ==
    InAuthzCall =>
        \A p \in Orders(Len(Policies)) :
            DecisionOver(Reordered(p)) = call.allowed

(***************************************************************************)
(* C12: predicate isolation.  A policy whose predicate raises an error or  *)
(* returns a non-boolean does not vote: the decision equals the decision   *)
(* with that policy removed from the list.                                 *)
(***************************************************************************)
C12_PredicateIsolation ==
    InAuthzCall =>
        \A i \in 1..Len(Policies) :
            DoesNotVote(i) => call.allowed = DecisionOver(Without(i))

\* the sre-admins predicate raises on claims without groups, and the
\* deny-everything policy it guards would otherwise undo the second policy
C12_Witness ==
    /\ InAuthzCall
    /\ Policies = <<PSreDenyAll, PAllowAll>>
    /\ call.req.Payload = SubPayload
    /\ DoesNotVote(1)
    /\ call.allowed

(***************************************************************************)
(* SpecRules: the evaluator of evaluator_test.go, whose one policy allows  *)
(* everything and denies what one resource rule matches, asked about       *)
(* requests that differ in every field a resource rule reads               *)
(***************************************************************************)
NsTeamAlpha == <<"t", "e", "a", "m", "-", "a", "l", "p", "h", "a">>
NsTeamDash  == <<"t", "e", "a", "m", "-">>
NsOther     == <<"o", "t", "h", "e", "r">>

\* the resource rules of the model: every field omitted, exact, or wildcard
RuleUniverse ==
    {ResourceRule(g, v, k, ns, n) :
        g \in {<<>>, <<"">>, <<"*">>, <<"apps">>},
        v \in {<<>>, <<"v1">>, <<"*">>},
        k \in {<<>>, <<"Secret">>, <<"*">>},
        ns \in {<<>>, <<StarPat>>, <<NsNone>>, <<NsOther>>,
                <<NsTeamDash \o StarPat>>,
                <<StarPat \o <<"-", "a", "l", "p", "h", "a">> >>,
                <<StarPat \o <<"e", "a", "m">> \o StarPat>>,
                <<<<"t">> \o StarPat \o <<"a">> >>,
                <<NsTeamDash \o StarPat, NsOther>>},
        n \in {<<>>, <<<<"d">> \o StarPat>>}}

\* evaluator_test.go "test-policy" with the rule as its only deny rule
PRule(rule) ==
    AuthorizationPolicy("test-policy", ExprTrue,
        Allow(<<"*">>, <<"*">>, <<AllResources>>),
        Deny(<<>>, <<>>, <<rule>>))

\* README "developers-limited": read-only tools by prefix, no Secrets, only
\* the namespaces of the team
PDevelopersLimited ==
    AuthorizationPolicy("developers-limited", ExprDev,
        Allow(<<"get_*", "list_*", "describe_*">>, <<"*">>,
              <<ResourceRule(<<"", "apps", "networking.k8s.io">>, <<>>, <<"*">>,
                             <<NsTeamDash \o StarPat>>, <<>>)>>),
        Deny(<<>>, <<>>,
             <<CoreSecrets,
               ResourceRule(<<"rbac.authorization.k8s.io">>, <<>>, <<"*">>, <<>>, <<>>)>>))

InitRules ==
    /\ config \in {Configuration(TRUE, <<PRule(r)>>, "", NoKubernetes) :
                        r \in RuleUniverse}
                 \cup {Configuration(FALSE, <<PDevelopersLimited>>,
                                     "X-Forwarded-Jwt", NoKubernetes)}
    /\ authz = NewEvaluator(config.Authorization).evaluator
    /\ clientManager = Nil
    /\ phase = "serving"
    /\ call = Idle
    /\ machine = Nil
    /\ goroutines = Nil

\* one call of checkAuthorization, as the test makes it; a token is
\* forwarded only where a header is configured to carry it
RuleCheck ==
    /\ call = Idle
    /\ \E token \in IF config.ForwardedHeader = "" THEN {TokAbsent}
                     ELSE {TokAbsent, TokDev},
          tool \in {"get_resource", "list_resources", "describe_resource"},
          namespace \in {NsNone, NsTeamAlpha, NsTeamDash, NsOther},
          resource \in {ResourceInfo(g, v, k, n) :
                            g \in {"", "apps"}, v \in {"", "v1"},
                            k \in {"Secret", "ConfigMap"}, n \in {<<>>, NameDb}} :
            LET r == checkAuthorization(Manager, token, tool, "dev",
                                        namespace, resource)
            IN  call' = [op |-> "checkAuthorization", token |-> token,
                         req |-> Deref(r.req), allowed |-> r.allowed, err |-> r.err]
    /\ UNCHANGED <<config, authz, clientManager, phase, machine, goroutines>>

NextRules == RuleCheck \/ AuthzReturn

SpecRules == InitRules /\ [][NextRules]_vars

(***************************************************************************)
(* Vocabulary of the claims about resource rules                           *)
(***************************************************************************)
\* the deny rule of the configured test policy
TheRule == Deref(Policies[1].Deny).Resources[1]

\* what the evaluator's own matcher says of the rule and the request
RuleMatched == matchesResourceRule(TheRule, call.req.Resource, call.req.Namespace)

\* a token list read by equality: omitted, or holding the value or "*"
TokensAdmit(list, value) ==
    list = <<>> \/ \E i \in 1..Len(list) : list[i] \in {"*", value}

Stars(pattern) == {i \in 1..Len(pattern) : pattern[i] = "*"}

\* the pattern is exact, "*", "prefix*", "*suffix" or "*middle*"
NamedShape(pattern) ==
    Stars(pattern) \in {{}, {1}, {Len(pattern)}, {1, Len(pattern)}}

\* the value is the pattern with each star replaced by some text
PatternAdmits(pattern, value) ==
    LET n == Len(pattern)
        m == Len(value)
    IN  \/ pattern = value
        \/ pattern = <<"*">>
        \/ /\ n > 1 /\ Stars(pattern) = {n}
           /\ \E k \in 0..m : value = SubSeq(pattern, 1, n - 1) \o SubSeq(value, k + 1, m)
        \/ /\ n > 1 /\ Stars(pattern) = {1}
           /\ \E k \in 0..m : value = SubSeq(value, 1, k) \o SubSeq(pattern, 2, n)
        \/ /\ n > 2 /\ Stars(pattern) = {1, n}
           /\ \E k \in 0..m, l \in 1..(m + 1) :
                value = SubSeq(value, 1, k) \o SubSeq(pattern, 2, n - 1)
                            \o SubSeq(value, l, m)

PatternsAdmit(list, value) ==
    list = <<>> \/ \E i \in 1..Len(list) : PatternAdmits(list[i], value)

\* every non-empty field list of the rule admits the request's value
RuleAdmits(rule, resource, namespace) ==
    /\ TokensAdmit(rule.Groups, resource.Group)
    /\ TokensAdmit(rule.Versions, resource.Version)
    /\ TokensAdmit(rule.Kinds, resource.Kind)
    /\ PatternsAdmit(rule.Namespaces, namespace)
    /\ PatternsAdmit(rule.Names, resource.Name)

NamedShapes(rule) ==
    /\ \A i \in 1..Len(rule.Namespaces) : NamedShape(rule.Namespaces[i])
    /\ \A i \in 1..Len(rule.Names) : NamedShape(rule.Names[i])

C14_NamespaceStarIsNamespacedOnly ==
    (InAuthzCall /\ Policies = <<PRule(TheRule)>> /\ TheRule.Groups = <<>> /\ TheRule.Versions = <<>>
        /\ TheRule.Kinds = <<>> /\ TheRule.Names = <<>>) =>
        /\ TheRule.Namespaces = <<StarPat>> => (RuleMatched <=> call.req.Namespace # NsNone)
        /\ TheRule.Namespaces = <<NsNone>> => (RuleMatched <=> call.req.Namespace = NsNone)
        /\ TheRule.Namespaces = <<>> => RuleMatched

(***************************************************************************)
(* C15: tool tokens of allow.tools ending in "*" match by prefix.  Under   *)
(* the README policy developers-limited, whose tools are "get_*", "list_*" *)
(* and "describe_*", a caller the policy matches may invoke get_resource,  *)
(* list_resources and describe_resource on a resource the policy's         *)
(* resource rules admit.                                                   *)
(***************************************************************************)
C15_ToolPrefixTokens ==
    (/\ InAuthzCall
     /\ Policies = <<PDevelopersLimited>>
     /\ Matched(1)
     /\ call.req.Tool \in {"get_resource", "list_resources", "describe_resource"}
     /\ matchesResourceRules(Deref(Policies[1].Allow).Resources,
                             call.req.Resource, call.req.Namespace)
     /\ NoDenyRuleHits)
        => call.allowed

(***************************************************************************)
(* SpecVirtual: an evaluator whose policy admits the resources of the      *)
(* reserved group "_" only (or everything), asked about virtual-resource   *)
(* tools and other tools with descriptors empty and filled in part         *)
(***************************************************************************)
\* every tool, every context, but only the virtual resources
PVirtualOnly ==
    AuthorizationPolicy("virtual-only", ExprTrue,
        Allow(<<"*">>, <<"*">>,
              <<ResourceRule(<<VirtualResourceGroup>>, <<>>, <<>>, <<>>, <<>>)>>),
        Nil)

InitVirtual ==
    /\ config \in {Configuration(TRUE, <<p>>, "", NoKubernetes) :
                        p \in {PVirtualOnly, PAllowAll}}
    /\ authz = NewEvaluator(config.Authorization).evaluator
    /\ clientManager = Nil
    /\ phase = "serving"
    /\ call = Idle
    /\ machine = Nil
    /\ goroutines = Nil

\* one call of checkAuthorization with a descriptor of the caller's making
VirtualCheck ==
    /\ call = Idle
    /\ \E tool \in VirtualTools \cup {"get_resource", "list_namespaces"},
          resource \in {ResourceInfo(g, v, k, n) :
                            g \in {"", "apps", VirtualResourceGroup},
                            v \in {"", "v1"},
                            k \in {"", "Secret", VirtualKindContext},
                            n \in {<<>>, NameDb}} :
            LET r == checkAuthorization(Manager, TokAbsent, tool, "dev",
                                        NsNone, resource)
            IN  call' = [op |-> "checkAuthorization", token |-> TokAbsent,
                         req |-> Deref(r.req), allowed |-> r.allowed, err |-> r.err]
    /\ UNCHANGED <<config, authz, clientManager, phase, machine, goroutines>>

NextVirtual == VirtualCheck \/ AuthzReturn

SpecVirtual == InitVirtual /\ [][NextVirtual]_vars

(***************************************************************************)
(* Vocabulary of the claims about virtual resources                        *)
(***************************************************************************)
\* the fixed descriptor of each of the six virtual-resource tools
FixedDescriptor(tool) ==
    ResourceInfo("_", "",
                 CASE tool \in {"list_api_resources", "list_api_versions"} -> "APIDiscovery"
                   [] tool = "get_cluster_info" -> "ClusterInfo"
                   [] tool \in {"get_current_context", "list_contexts",
                                "switch_context"} -> "Context",
                 <<>>)

SixVirtualTools ==
    {"list_api_resources", "list_api_versions", "get_cluster_info",
     "get_current_context", "list_contexts", "switch_context"}

\* the descriptor evaluated when the substitution is made for descriptors
\* the predicate holds of, and for no other
SubstitutedWhen(isEmpty, tool, resource) ==
    IF tool \in SixVirtualTools /\ isEmpty THEN FixedDescriptor(tool) ELSE resource

\* the descriptor the evaluator hands the policies agrees with the expected
\* one, and the virtual-only policy decides by it
EvaluatesDescriptor(expected) ==
    /\ CallFacts.resource = expected
    /\ Policies = <<PVirtualOnly>> => (call.allowed <=> expected.Group = "_")

AuthzAsked == call.op \in ToolNames /\ call.authz.evaluated
AskedRequest == Deref(call.authz.req)
AskedDescriptor == GetResourceForTool(AskedRequest.Tool, AskedRequest.Resource)

Presents(group, kind) ==
    AskedDescriptor.Group = group /\ AskedDescriptor.Kind = kind

(***************************************************************************)
(* C17: the tools with a fixed resource present that descriptor to the     *)
(* evaluator: get_logs and exec_command the core Pod, list_namespaces the  *)
(* core Namespace, list_events the core Event, check_permission            *)
(* authorization.k8s.io SelfSubjectAccessReview, get_pod_metrics and       *)
(* get_node_metrics metrics.k8s.io PodMetrics and NodeMetrics, the six     *)
(* virtual tools the group "_" with their fixed kind.                      *)
(***************************************************************************)
C17_FixedDescriptors ==
    AuthzAsked =>
        /\ call.op \in {"get_logs", "exec_command"} => Presents("", "Pod")
        /\ call.op = "list_namespaces" => Presents("", "Namespace")
        /\ call.op = "list_events" => Presents("", "Event")
        /\ call.op = "check_permission"
                => Presents("authorization.k8s.io", "SelfSubjectAccessReview")
        /\ call.op = "get_pod_metrics" => Presents("metrics.k8s.io", "PodMetrics")
        /\ call.op = "get_node_metrics" => Presents("metrics.k8s.io", "NodeMetrics")
        /\ call.op \in SixVirtualTools => AskedDescriptor = FixedDescriptor(call.op)

\* the context argument of the invocation ("" when the caller gave none);
\* switch_context names its context in context_name
ContextSupplied ==
    IF call.op = "switch_context" THEN call.args.context_name
    ELSE IF "context" \in DOMAIN call.args THEN call.args.context
    ELSE ""

(***************************************************************************)
(* C18: every invocation is authorized against exactly one context, the    *)
(* caller-supplied one when present and the current active context         *)
(* otherwise; the context handed to the evaluator is never empty while an  *)
(* active context is set.                                                  *)
(***************************************************************************)
C18_OneContext ==
    AuthzAsked =>
        /\ AskedRequest.Context =
               IF ContextSupplied # "" THEN ContextSupplied
               ELSE GetCurrentContext(k8sManager.clientManager)
        /\ GetCurrentContext(k8sManager.clientManager) # "" => AskedRequest.Context # ""

(***************************************************************************)
(* SpecNamespaces: a client manager loaded with two contexts whose allow-  *)
(* and deny-lists range over the lists of two namespaces, asked            *)
(* IsNamespaceAllowed for any context name and namespace                   *)
(***************************************************************************)
NamespaceLists ==
    {<<>>, <<NsDefault>>, <<NsTeamA>>, <<NsDefault, NsTeamA>>}

InitNamespaces ==
    /\ config \in {Configuration(TRUE, <<PAllowAll>>, "",
                        KubernetesConfig(d,
                            <<KubernetesContextConfig("dev", allowed, denied), CtxProd>>)) :
                        d \in {"", "dev", "prod"},
                        allowed \in NamespaceLists, denied \in NamespaceLists}
    /\ authz = NewEvaluator(config.Authorization).evaluator
    /\ clientManager = NewClientManager(config.Kubernetes,
                                        [kubeconfig |-> "ok", metrics |-> FALSE]).cm
    /\ phase = "serving"
    /\ call = Idle
    /\ machine = Nil
    /\ goroutines = Nil

\* one call of ClientManager.IsNamespaceAllowed
NamespaceCheck ==
    /\ call = Idle
    /\ \E context \in {"", "dev", "prod", "qa"},
          namespace \in {NsNone, NsDefault, NsTeamA, NsOther} :
            call' = [op |-> "IsNamespaceAllowed", context |-> context,
                     namespace |-> namespace,
                     allowed |-> IsNamespaceAllowed(Deref(clientManager),
                                                    context, namespace)]
    /\ UNCHANGED <<config, authz, clientManager, phase, machine, goroutines>>

NamespaceReturn ==
    /\ call.op = "IsNamespaceAllowed"
    /\ call' = Idle
    /\ UNCHANGED <<config, authz, clientManager, phase, machine, goroutines>>

NextNamespaces == NamespaceCheck \/ NamespaceReturn

SpecNamespaces == InitNamespaces /\ [][NextNamespaces]_vars

(***************************************************************************)
(* Vocabulary of the claims about namespace lists                          *)
(***************************************************************************)
\* the contexts loaded, and what the lists of a loaded context say of a
\* namespace
Loaded(context) == context \in DOMAIN Deref(clientManager).contextsByName

ListsAdmit(context, namespace) ==
    LET lists == Deref(clientManager).contextsByName[context]
    IN  /\ namespace \notin SeqToSet(lists.DeniedNamespaces)
        /\ \/ lists.AllowedNamespaces = <<>>
           \/ namespace \in SeqToSet(lists.AllowedNamespaces)

OnBothLists(context, namespace) ==
    LET lists == Deref(clientManager).contextsByName[context]
    IN  /\ namespace \in SeqToSet(lists.DeniedNamespaces)
        /\ namespace \in SeqToSet(lists.AllowedNamespaces)

NamespacesReached ==
    {<<call.ops[i].context, call.ops[i].namespace>> :
        i \in {j \in DOMAIN call.ops : call.ops[j].namespace # NsNone}}

\* the invocation names a namespace its context does not admit
TargetsDisallowedNamespace ==
    /\ "namespace" \in DOMAIN call.args
    /\ call.args.namespace # NsNone
    /\ ~IsNamespaceAllowed(k8sManager.clientManager,
                           getContextParam(k8sManager, call.args),
                           call.args.namespace)

(***************************************************************************)
(* C20: a cluster operation against namespace N of context C happens only  *)
(* in an invocation for which namespace_allowed(C, N) is true, whether N   *)
(* came from the caller or was filled in by the handler; an invocation     *)
(* that targets a disallowed namespace returns an error and makes no       *)
(* cluster call.                                                           *)
(***************************************************************************)
C20_NamespaceGate ==
    InToolCall =>
        /\ \A reached \in NamespacesReached :
                IsNamespaceAllowed(k8sManager.clientManager, reached[1], reached[2])
        /\ TargetsDisallowedNamespace => call.result.IsError /\ call.ops = <<>>

(***************************************************************************)
(* C21: the active context always names a loaded context, from             *)
(* construction on and whatever contexts are switched to; switch_context   *)
(* to an unknown name fails and leaves the active context as it was.       *)
(***************************************************************************)
C21_ActiveContextLoaded ==
    Registered =>
        /\ GetCurrentContext(Deref(clientManager)) \in ListContexts(Deref(clientManager))
        /\ (call.op = "switch_context"
              /\ call.args.context_name \notin ListContexts(Deref(clientManager)))
            => /\ call.result.IsError
               /\ GetCurrentContext(Deref(clientManager)) = call.oldContext

(***************************************************************************)
(* SpecWatch: the client manager with its watcher.  NewClientManager has   *)
(* loaded the explicit contexts and the contexts directory; the machine    *)
(* writes credential files and lets time pass; watchFiles takes the        *)
(* fsnotify events and arms the debounce timer; the timer's callback       *)
(* reloads the pending files; requests ask GetClient for a bundle and      *)
(* hold it for a while.                                                    *)
(*                                                                         *)
(* A credential file is a directory, a base name and an extension; its     *)
(* contents are the current-context it declares, a version that grows     *)
(* with every write, and whether clientcmd can load it.  A Client is an    *)
(* object in the machine's memory: cm.clients maps a context to its        *)
(* address, and Config tells the version of the file it was built from.    *)
(***************************************************************************)
DebounceInterval == 2      \* 500 ms, in ticks of the model's clock
MaxTime   == 4             \* ticks the clock is followed for
MaxEvents == 3             \* file events the machine produces
MaxRequests == 1           \* requests in flight at a time

File(dir, base, ext) == [Dir |-> dir, Base |-> base, Ext |-> ext]

FileDev  == File("/etc/mcp", "dev", ".yaml")
FileProd == File("/k", "prod", ".yaml")
FileQa   == File("/k", "qa", ".yml")

\* every file of the model, in the order os.ReadDir lists names
Files == <<FileDev, FileProd, FileQa>>

Kubeconfig(currentContext, version, valid) ==
    [CurrentContext |-> currentContext, Version |-> version, Valid |-> valid]

\* api.KubernetesContextConfig with its kubeconfig path
WatchedContextConfig(name, kubeconfig) ==
    [Name |-> name, Kubeconfig |-> kubeconfig,
     AllowedNamespaces |-> <<>>, DeniedNamespaces |-> <<>>]

\* two explicit contexts reading one kubeconfig, and a contexts directory
WatchedKubernetes ==
    [DefaultContext |-> "dev",
     Contexts |-> <<WatchedContextConfig("dev", Some(FileDev)),
                    WatchedContextConfig("stage", Some(FileDev))>>,
     ContextsDir |-> "/k"]

\* createClient on a kubeconfig path: the file is read when the client is
\* built; a file that is missing or does not load is an error
createClientAt(name, ctxConfig, files) ==
    LET contents == files[Deref(ctxConfig.Kubeconfig)]
    IN  IF IsNil(contents) \/ ~Deref(contents).Valid
        THEN [client |-> Nil, err |-> <<"failed to build config from kubeconfig">>]
        ELSE [client |-> Some([Context |-> name, MetricsClient |-> TRUE,
                               Config |-> Deref(contents).Version]),
              err |-> Nil]

\* cm.clients[name] = client, cm.contextsByName[name] = ctxConfig; the Client
\* is a new object in memory
register(st, ctxConfig, client) ==
    [st EXCEPT
        !.heap = Append(@, client),
        !.cm.clients = [n \in DOMAIN @ \cup {ctxConfig.Name} |->
                            IF n = ctxConfig.Name THEN Len(st.heap) + 1 ELSE @[n]],
        !.cm.contextsByName = [n \in DOMAIN @ \cup {ctxConfig.Name} |->
                            IF n = ctxConfig.Name THEN ctxConfig ELSE @[n]]]

\* trackFile: the context is bound to the path and the parent directory of
\* the path is watched
trackFile(st, path, contextName) ==
    [st EXCEPT
        !.cm.fileToContexts = [f \in DOMAIN @ \cup {path} |->
                                    IF f \in DOMAIN @
                                    THEN IF f = path THEN Append(@[f], contextName)
                                         ELSE @[f]
                                    ELSE <<contextName>>],
        !.cm.watcher = @ \cup {path.Dir}]

\* the loop of NewClientManager over config.Contexts[i..]
RECURSIVE loadExplicitContexts(_, _, _, _)
loadExplicitContexts(st, contexts, i, files) ==
    IF i > Len(contexts) \/ ~IsNil(st.err) THEN st
    ELSE IF contexts[i].Name \in DOMAIN st.cm.contextsByName
    THEN [st EXCEPT !.err = <<"duplicate context name ", contexts[i].Name>>]
    ELSE LET made == createClientAt(contexts[i].Name, contexts[i], files)
         IN  IF ~IsNil(made.err)
             THEN [st EXCEPT !.err = <<"failed to create client for context ",
                                       contexts[i].Name>>]
             ELSE loadExplicitContexts(
                    LET loaded == register(st, contexts[i], Deref(made.client))
                    IN  IF ~IsNil(contexts[i].Kubeconfig)
                        THEN trackFile(loaded, Deref(contexts[i].Kubeconfig),
                                       contexts[i].Name)
                        ELSE loaded,
                    contexts, i + 1, files)

\* the loop of loadContextsFromDir over the entries of the directory: the
\* files with a recognized extension, each a context named by its
\* current-context
RECURSIVE loadContextsFromDir(_, _, _, _)
loadContextsFromDir(st, dir, i, files) ==
    IF i > Len(Files) \/ ~IsNil(st.err) THEN st
    ELSE LET path == Files[i]
             contents == files[path]
         IN  IF path.Dir # dir \/ IsNil(contents)
             THEN loadContextsFromDir(st, dir, i + 1, files)
             ELSE IF path.Ext \notin {".yaml", ".yml"}
             THEN loadContextsFromDir(st, dir, i + 1, files)
             ELSE IF ~Deref(contents).Valid
             THEN [st EXCEPT !.err = <<"failed to load kubeconfig">>]
             ELSE IF Deref(contents).CurrentContext = ""
             THEN [st EXCEPT !.err = <<"kubeconfig has no current-context set">>]
             ELSE IF Deref(contents).CurrentContext \in DOMAIN st.cm.contextsByName
             THEN [st EXCEPT !.err = <<"context name collision">>]
             ELSE LET contextName == Deref(contents).CurrentContext
                      ctxConfig == WatchedContextConfig(contextName, Some(path))
                      made == createClientAt(contextName, ctxConfig, files)
                  IN  IF ~IsNil(made.err)
                      THEN [st EXCEPT !.err = <<"failed to create client for context ",
                                                contextName>>]
                      ELSE loadContextsFromDir(
                             trackFile(register(st, ctxConfig, Deref(made.client)),
                                       path, contextName),
                             dir, i + 1, files)

\* an unlocked sync.RWMutex
Unlocked == [writer |-> FALSE, readers |-> 0]

\* NewClientManager with the watcher: the manager, the Client objects it
\* made, and the error if start-up failed
NewClientManagerAt(kubernetes, files) ==
    LET fresh == [cm |-> [currentContext |-> kubernetes.DefaultContext,
                          clients |-> <<>>,
                          contextsByName |-> <<>>,
                          fileToContexts |-> <<>>,
                          watcher |-> {},
                          mutex |-> Unlocked],
                  heap |-> <<>>,
                  err |-> Nil]
        explicit == loadExplicitContexts(fresh, kubernetes.Contexts, 1, files)
    IN  IF kubernetes.ContextsDir # ""
        THEN loadContextsFromDir(explicit, kubernetes.ContextsDir, 1, files)
        ELSE explicit

\* the files present at start-up: dev.yaml and prod.yaml; qa.yml is not
\* there yet
StartupFiles ==
    [f \in {Files[i] : i \in DOMAIN Files} |->
        IF f = FileQa THEN Nil ELSE Some(Kubeconfig(f.Base, 1, TRUE))]

InitWatch ==
    LET made == NewClientManagerAt(WatchedKubernetes, StartupFiles)
    IN  /\ config = Configuration(TRUE, <<>>, "", WatchedKubernetes)
        /\ authz = Nil
        /\ clientManager = Some(made.cm)
        /\ phase = "serving"
        /\ call = Idle
        /\ machine = [files |-> StartupFiles, events |-> <<>>, produced |-> 0,
                      now |-> 0, heap |-> made.heap]
        /\ goroutines = [pendingFiles |-> {}, debounceTimer |-> Nil,
                         seen |-> [f \in DOMAIN StartupFiles |-> Nil],
                         callbacks |-> <<>>, requests |-> <<>>]

cm == Deref(clientManager)

RemoveAt(seq, k) == SubSeq(seq, 1, k - 1) \o SubSeq(seq, k + 1, Len(seq))

\* the machine writes a credential file in a watched directory (a new
\* file is created), or touches its mode; fsnotify reports it
FileEvent ==
    /\ machine.produced < MaxEvents
    /\ \E f \in {g \in DOMAIN machine.files : g.Dir \in cm.watcher},
          kind \in {"valid", "broken", "chmod"} :
        /\ kind = "broken" => f = FileDev
        /\ kind = "chmod" => f = FileProd
        /\ LET old == machine.files[f]
               version == IF IsNil(old) THEN 1 ELSE Deref(old).Version + 1
               written == Some(Kubeconfig(f.Base, version, kind = "valid"))
               event == [Name |-> f,
                         Op |-> IF kind = "chmod" THEN "Chmod"
                                ELSE IF IsNil(old) THEN "Create" ELSE "Write",
                         Version |-> IF kind = "chmod" THEN Deref(old).Version
                                     ELSE version]
           IN  machine' = [machine EXCEPT
                                !.files[f] = IF kind = "chmod" THEN @ ELSE written,
                                !.events = Append(@, event),
                                !.produced = @ + 1]
    /\ UNCHANGED <<config, authz, clientManager, phase, call, goroutines>>

\* time passes; a timer that is due fires before more time passes
Tick ==
    /\ machine.now < MaxTime
    /\ IF IsNil(goroutines.debounceTimer) THEN TRUE
       ELSE machine.now < Deref(goroutines.debounceTimer)
    /\ machine' = [machine EXCEPT !.now = @ + 1]
    /\ UNCHANGED <<config, authz, clientManager, phase, call, goroutines>>

\* watchFiles, one turn of its loop on an event: events other than writes
\* and creations, and events on files no context is bound to, are dropped;
\* otherwise the file is pending and the one debounce timer starts afresh
WatchEvent ==
    /\ machine.events # <<>>
    /\ LET event == Head(machine.events)
           tracked == event.Name \in DOMAIN cm.fileToContexts
       IN  /\ event.Op \in {"Write", "Create"} => ~cm.mutex.writer
           /\ goroutines' =
                IF event.Op \notin {"Write", "Create"} \/ ~tracked THEN goroutines
                ELSE [goroutines EXCEPT
                        !.pendingFiles = @ \cup {event.Name},
                        !.debounceTimer = Some(machine.now + DebounceInterval),
                        !.seen[event.Name] = Some([At |-> machine.now,
                                                   Version |-> event.Version])]
    /\ machine' = [machine EXCEPT !.events = Tail(@)]
    /\ UNCHANGED <<config, authz, clientManager, phase, call>>

\* the orders a range over a map can take
Enumerations(S) ==
    {q \in [1..Cardinality(S) -> S] : \A i, j \in DOMAIN q : i # j => q[i] # q[j]}

\* the debounce timer fires: its callback takes the pending files, in the
\* order the map yields them, and will reload them one after the other
TimerFire ==
    /\ IF IsNil(goroutines.debounceTimer) THEN FALSE
       ELSE machine.now >= Deref(goroutines.debounceTimer)
    /\ \E filesToReload \in Enumerations(goroutines.pendingFiles) :
        goroutines' = [goroutines EXCEPT
            !.pendingFiles = {},
            !.debounceTimer = Nil,
            !.callbacks = Append(@,
                [pc |-> "reloadContextsForFile", filesToReload |-> filesToReload,
                 i |-> 1, j |-> 1, failed |-> {}, before |-> cm.clients,
                 wanted |-> [f \in goroutines.pendingFiles |->
                                Deref(goroutines.seen[f]).Version]])]
    /\ UNCHANGED <<config, authz, clientManager, phase, call, machine>>

\* reloadContextsForFile, cm.mutex.Lock(): the callback waits for the lock
ReloadLock ==
    \E k \in DOMAIN goroutines.callbacks :
        LET cb == goroutines.callbacks[k]
        IN  /\ cb.pc = "reloadContextsForFile"
            /\ ~cm.mutex.writer /\ cm.mutex.readers = 0
            /\ clientManager' = Some([cm EXCEPT !.mutex.writer = TRUE])
            /\ goroutines' = [goroutines EXCEPT
                    !.callbacks[k].pc =
                        IF cb.filesToReload[cb.i] \in DOMAIN cm.fileToContexts
                        THEN "createClient" ELSE "Unlock",
                    !.callbacks[k].j = 1,
                    !.callbacks[k].failed = {},
                    !.callbacks[k].before = cm.clients]
            /\ UNCHANGED <<config, authz, phase, call, machine>>

\* storeClient writing the new client over the object the slot points at
storeClient_InPlace(st, contextName, client) ==
    [st EXCEPT !.heap[st.cm.clients[contextName]] = client]

\* cm.clients[contextName] = client: the slot points at the new object; the
\* object it pointed at before is left as it is
storeClient(st, contextName, client) ==
    [st EXCEPT !.heap = Append(@, client),
               !.cm.clients[contextName] = Len(st.heap) + 1]

\* reloadClient emptying the slot of a context whose client it could not build
reloadClient_DropsOnError(st, contextName, made) ==
    IF ~IsNil(made.err)
    THEN [st EXCEPT !.cm.clients = [n \in DOMAIN @ \ {contextName} |-> @[n]]]
    ELSE storeClient(st, contextName, Deref(made.client))

\* the body of the loop of reloadContextsForFile for one context: a client
\* that could not be built is logged and the slot is left alone
reloadClient(st, contextName, made) ==
    IF ~IsNil(made.err) THEN st
    ELSE storeClient(st, contextName, Deref(made.client))

\* reloadContextsForFile, one turn of its loop: the client of the next
\* context bound to the file is built from the file as it is now
ReloadCreateClient ==
    \E k \in DOMAIN goroutines.callbacks :
        LET cb == goroutines.callbacks[k]
            contextNames == cm.fileToContexts[cb.filesToReload[cb.i]]
            contextName == contextNames[cb.j]
            made == createClientAt(contextName, cm.contextsByName[contextName],
                                   machine.files)
            after == IF contextName \notin DOMAIN cm.contextsByName
                     THEN [cm |-> cm, heap |-> machine.heap]
                     ELSE reloadClient([cm |-> cm, heap |-> machine.heap],
                                       contextName, made)
        IN  /\ cb.pc = "createClient"
            /\ clientManager' = Some(after.cm)
            /\ machine' = [machine EXCEPT !.heap = after.heap]
            /\ goroutines' = [goroutines EXCEPT
                    !.callbacks[k].pc = IF cb.j = Len(contextNames)
                                        THEN "Unlock" ELSE "createClient",
                    !.callbacks[k].j = @ + 1,
                    !.callbacks[k].failed =
                        IF contextName \in DOMAIN cm.contextsByName /\ ~IsNil(made.err)
                        THEN @ \cup {contextName} ELSE @]
            /\ UNCHANGED <<config, authz, phase, call>>

\* reloadContextsForFile returns: the deferred cm.mutex.Unlock()
ReloadUnlock ==
    \E k \in DOMAIN goroutines.callbacks :
        /\ goroutines.callbacks[k].pc = "Unlock"
        /\ clientManager' = Some([cm EXCEPT !.mutex.writer = FALSE])
        /\ goroutines' = [goroutines EXCEPT !.callbacks[k].pc = "returned"]
        /\ UNCHANGED <<config, authz, phase, call, machine>>

\* the callback goes on to its next file, or ends
CallbackNext ==
    \E k \in DOMAIN goroutines.callbacks :
        LET cb == goroutines.callbacks[k]
        IN  /\ cb.pc = "returned"
            /\ goroutines' =
                IF cb.i = Len(cb.filesToReload)
                THEN [goroutines EXCEPT !.callbacks = RemoveAt(@, k)]
                ELSE [goroutines EXCEPT !.callbacks[k].i = @ + 1,
                                        !.callbacks[k].pc = "reloadContextsForFile"]
            /\ UNCHANGED <<config, authz, clientManager, phase, call, machine>>

\* a request asks GetClient for the bundle of a context (under the read
\* lock) and goes on with what it was handed
RequestGetClient ==
    /\ Len(goroutines.requests) < MaxRequests
    /\ ~cm.mutex.writer
    /\ \E context \in {"", "dev", "stage", "prod", "qa"} :
        LET found == GetClient(cm, context)
        IN  goroutines' = [goroutines EXCEPT !.requests = Append(@,
                [context |-> context, client |-> found.client, err |-> found.err,
                 handed |-> IF IsNil(found.err)
                            THEN Some(machine.heap[Deref(found.client)]) ELSE Nil])]
    /\ UNCHANGED <<config, authz, clientManager, phase, call, machine>>

\* the request is over
RequestDone ==
    /\ goroutines.requests # <<>>
    /\ goroutines' = [goroutines EXCEPT !.requests = Tail(@)]
    /\ UNCHANGED <<config, authz, clientManager, phase, call, machine>>

NextWatch ==
    \/ FileEvent
    \/ Tick
    \/ WatchEvent
    \/ TimerFire
    \/ ReloadLock
    \/ ReloadCreateClient
    \/ ReloadUnlock
    \/ CallbackNext
    \/ RequestGetClient
    \/ RequestDone

SpecWatch == InitWatch /\ [][NextWatch]_vars

(***************************************************************************)
(* Vocabulary of the claims about reloads                                  *)
(***************************************************************************)
\* the contexts NewClientManager loaded
StartupContexts == {"dev", "stage", "prod"}

\* the Client object a context's slot points at
Bundle(contextName) == machine.heap[cm.clients[contextName]]

\* the file a callback is reloading or has just reloaded
FileOf(cb) == cb.filesToReload[cb.i]

\* callbacks whose reloadContextsForFile has just returned having rebuilt
\* every context bound to the file
ReloadedWell ==
    {k \in DOMAIN goroutines.callbacks :
        /\ goroutines.callbacks[k].pc = "returned"
        /\ goroutines.callbacks[k].failed = {}}

\* a whole bundle of the context: every field set, built from a version the
\* context's file has had
WholeBundle(contextName, client) ==
    /\ DOMAIN client = {"Context", "Config", "MetricsClient"}
    /\ client.Context = contextName
    /\ client.MetricsClient \in BOOLEAN
    /\ client.Config \in
         1..Deref(machine.files[Deref(cm.contextsByName[contextName].Kubeconfig)]).Version

(***************************************************************************)
(* C22: reload atomicity.  When a debounced reload of file F has completed *)
(* successfully, the slot of every context bound to F holds a bundle built *)
(* from F as it was after the change that set the reload off; at every     *)
(* instant GetClient yields a whole bundle, the old one or the new one;    *)
(* and the bundle a request in flight was handed is never modified.        *)
(***************************************************************************)
C22_ReloadAtomicity ==
    /\ \A k \in ReloadedWell :
        LET cb == goroutines.callbacks[k]
        IN  \A i \in DOMAIN cm.fileToContexts[FileOf(cb)] :
                Bundle(cm.fileToContexts[FileOf(cb)][i]).Config >= cb.wanted[FileOf(cb)]
    /\ \A contextName \in ListContexts(cm) :
        /\ IsNil(GetClient(cm, contextName).err)
        /\ WholeBundle(contextName, Bundle(contextName))
    /\ \A r \in DOMAIN goroutines.requests :
        LET request == goroutines.requests[r]
        IN  IsNil(request.err) =>
                machine.heap[Deref(request.client)] = Deref(request.handed)

\* a reload of dev.yaml has completed while a request still holds the
\* bundle of dev built from the file as it was before
C22_Witness ==
    /\ \E k \in ReloadedWell : FileOf(goroutines.callbacks[k]) = FileDev
    /\ Bundle("dev").Config = 2
    /\ \E r \in DOMAIN goroutines.requests :
        /\ goroutines.requests[r].context = "dev"
        /\ Deref(goroutines.requests[r].handed).Config = 1

(***************************************************************************)
(* C23: a context loaded at start-up always has a usable bundle.  GetClient*)
(* for it never fails, before, during and after reloads, and a rebuild     *)
(* that fails leaves the bundle the slot held.                             *)
(***************************************************************************)
C23_BundleAlwaysUsable ==
    /\ \A contextName \in StartupContexts :
        /\ IsNil(GetClient(cm, contextName).err)
        /\ WholeBundle(contextName, Bundle(contextName))
    /\ \A r \in DOMAIN goroutines.requests :
        goroutines.requests[r].context \in StartupContexts
            => IsNil(goroutines.requests[r].err)
    /\ \A k \in DOMAIN goroutines.callbacks :
        LET cb == goroutines.callbacks[k]
        IN  cb.pc \in {"createClient", "Unlock"} =>
                \A contextName \in cb.failed :
                    cm.clients[contextName] = cb.before[contextName]

\* the rebuild of dev from a broken dev.yaml has failed and a request gets
\* the bundle dev had
C23_Witness ==
    /\ \E k \in DOMAIN goroutines.callbacks :
        /\ goroutines.callbacks[k].pc = "returned"
        /\ "dev" \in goroutines.callbacks[k].failed
    /\ Bundle("dev").Config = 1
    /\ \E r \in DOMAIN goroutines.requests :
        /\ goroutines.requests[r].context = "dev"
        /\ IsNil(goroutines.requests[r].err)

\* the watcher has nothing left to do: no event waits, no file is pending,
\* no timer is armed, no callback runs
WatcherAtRest ==
    /\ machine.events = <<>>
    /\ goroutines.pendingFiles = {}
    /\ IsNil(goroutines.debounceTimer)
    /\ goroutines.callbacks = <<>>

\* the loadable credential files of the contexts directory
CredentialFiles ==
    {f \in DOMAIN machine.files :
        /\ f.Dir = config.Kubernetes.ContextsDir
        /\ f.Ext \in {".yaml", ".yml"}
        /\ IF IsNil(machine.files[f]) THEN FALSE ELSE Deref(machine.files[f]).Valid}

(***************************************************************************)
(* C24: a credential file with a recognized extension that appears in the  *)
(* watched directory after start-up becomes a context named by the file's  *)
(* current-context, listed by ListContexts and served by GetClient (once   *)
(* the watcher has dealt with the event); apart from that no context is    *)
(* ever added or removed.                                                  *)
(***************************************************************************)
C24_NewFileBecomesContext ==
    /\ WatcherAtRest =>
        \A f \in CredentialFiles :
            LET contextName == Deref(machine.files[f]).CurrentContext
            IN  /\ contextName \in ListContexts(cm)
                /\ IsNil(GetClient(cm, contextName).err)
    /\ StartupContexts \subseteq ListContexts(cm)
    /\ ListContexts(cm) \subseteq
            StartupContexts \cup {f.Base : f \in DOMAIN machine.files}

(***************************************************************************)
(* C28: while a reload builds a bundle (reads the credential file, makes   *)
(* the clients) the manager's lock is not held; the exclusive lock is held *)
(* for the replacement of the slot only.                                   *)
(***************************************************************************)
C28_BuildsOutsideLock ==
    \A k \in DOMAIN goroutines.callbacks :
        goroutines.callbacks[k].pc = "createClient" => ~cm.mutex.writer

(***************************************************************************)
(* C29: events are debounced per path.  A tracked file that received an    *)
(* event is taken up for reload once its own debounce interval has passed  *)
(* without further events for it; events on another tracked file do not    *)
(* postpone that.                                                          *)
(***************************************************************************)
C29_DebouncedPerPath ==
    \A f \in goroutines.pendingFiles :
        machine.now <= Deref(goroutines.seen[f]).At + DebounceInterval

(***************************************************************************)
(* SpecThreads: one get_resource invocation and one switch_context         *)
(* invocation run side by side, each method of the client manager taking   *)
(* its steps: the lock it takes (if it takes one), the fields it reads or  *)
(* writes, the unlock.  The mutex records which goroutine holds it.        *)
(***************************************************************************)
MaxInvocations == 2        \* get_resource invocations followed
MaxSwitches    == 2        \* switch_context invocations followed

\* a sync.RWMutex nobody holds
Free == [writer |-> Nil, readers |-> {}]

\* what a read of a string may yield while another goroutine writes it
Torn == "\\x00"

NoRequest == [pc |-> "idle"]

InitThreads ==
    /\ config \in {Configuration(TRUE, <<PAllowAll>>, "",
                        KubernetesConfig(d, <<CtxDev, CtxProd>>)) : d \in {"", "dev"}}
    /\ authz = NewEvaluator(config.Authorization).evaluator
    /\ LET made == Deref(NewClientManager(config.Kubernetes,
                            [kubeconfig |-> "ok", metrics |-> FALSE]).cm)
       IN  clientManager = Some([currentContext |-> made.currentContext,
                                 clients |-> made.clients,
                                 contextsByName |-> made.contextsByName,
                                 mutex |-> Free])
    /\ phase = "serving"
    /\ call = Idle
    /\ machine = Nil
    /\ goroutines = [request |-> NoRequest, switch |-> NoRequest,
                     invocations |-> 0, switches |-> 0]

\* the values an unlocked read of cm.currentContext can see: the value
\* stored, and, when SetCurrentContext is about to store another, that one
\* or a mix of the two
UnlockedCurrentContext ==
    LET switch == goroutines.switch
    IN  IF switch.pc = "SetCurrentContext.write"
           /\ switch.contextName \in DOMAIN cm.clients
           /\ switch.contextName # cm.currentContext
        THEN {cm.currentContext, switch.contextName, Torn}
        ELSE {cm.currentContext}

\* handleGetResource is called
GetResourceCalled ==
    /\ goroutines.request.pc = "idle"
    /\ goroutines.invocations < MaxInvocations
    /\ \E context \in {"", "prod"}, namespace \in {NsDefault, NsTeamA} :
        goroutines' = [goroutines EXCEPT
            !.invocations = @ + 1,
            !.request = [pc |-> "getContextParam",
                         args |-> [context |-> context, namespace |-> namespace],
                         k8sContext |-> "", authorized |-> Nil, gated |-> Nil,
                         client |-> Nil, result |-> ""]]
    /\ UNCHANGED <<config, authz, clientManager, phase, call, machine>>

\* getContextParam: the context argument, or GetCurrentContext, which
\* starts by taking the read lock
GetContextParamStep ==
    LET request == goroutines.request
    IN  /\ request.pc = "getContextParam"
        /\ IF request.args.context # ""
           THEN /\ goroutines' = [goroutines EXCEPT
                        !.request.k8sContext = request.args.context,
                        !.request.pc = "checkAuthorization"]
                /\ UNCHANGED clientManager
           ELSE /\ IsNil(cm.mutex.writer)
                /\ clientManager' = Some([cm EXCEPT !.mutex.readers = @ \cup {"request"}])
                /\ goroutines' = [goroutines EXCEPT !.request.pc = "GetCurrentContext.read"]
        /\ UNCHANGED <<config, authz, phase, call, machine>>

\* GetCurrentContext: return cm.currentContext, and the deferred RUnlock
GetCurrentContextRead ==
    /\ goroutines.request.pc = "GetCurrentContext.read"
    /\ goroutines' = [goroutines EXCEPT
            !.request.k8sContext = GetCurrentContext(cm),
            !.request.pc = "checkAuthorization"]
    /\ clientManager' = Some([cm EXCEPT !.mutex.readers = @ \ {"request"}])
    /\ UNCHANGED <<config, authz, phase, call, machine>>

\* checkAuthorization for the context getContextParam gave
CheckAuthorizationStep ==
    LET request == goroutines.request
        auth == checkAuthorization(Manager, TokAbsent, "get_resource",
                    request.k8sContext, request.args.namespace,
                    ResourceInfo("", "v1", "ConfigMap", NameDb))
    IN  /\ request.pc = "checkAuthorization"
        /\ goroutines' = [goroutines EXCEPT
                !.request.authorized = Some(Deref(auth.req).Context),
                !.request.pc = IF IsNil(auth.err) THEN "IsNamespaceAllowed"
                               ELSE "return",
                !.request.result = IF IsNil(auth.err) THEN "" ELSE "error"]
        /\ UNCHANGED <<config, authz, clientManager, phase, call, machine>>

\* IsNamespaceAllowed(k8sContext, namespace): GetContextConfig reads
\* cm.currentContext (for an empty context) and cm.contextsByName, and no
\* lock is taken
IsNamespaceAllowedStep ==
    LET request == goroutines.request
    IN  /\ request.pc = "IsNamespaceAllowed"
        /\ \E seen \in (IF request.k8sContext = "" THEN UnlockedCurrentContext
                        ELSE {request.k8sContext}) :
            LET allowed == IsNamespaceAllowed([cm EXCEPT !.currentContext = seen],
                                request.k8sContext, request.args.namespace)
            IN  goroutines' = [goroutines EXCEPT
                    !.request.gated = Some(seen),
                    !.request.pc = IF allowed THEN "GetClient" ELSE "return",
                    !.request.result = IF allowed THEN "" ELSE "error"]
        /\ UNCHANGED <<config, authz, clientManager, phase, call, machine>>

\* GetClient: cm.mutex.RLock()
GetClientLock ==
    /\ goroutines.request.pc = "GetClient"
    /\ IsNil(cm.mutex.writer)
    /\ clientManager' = Some([cm EXCEPT !.mutex.readers = @ \cup {"request"}])
    /\ goroutines' = [goroutines EXCEPT !.request.pc = "GetClient.read"]
    /\ UNCHANGED <<config, authz, phase, call, machine>>

\* GetClient: the client of the context (the current one for an empty
\* context), the deferred RUnlock, and the handler's call to the cluster
GetClientRead ==
    LET request == goroutines.request
        found == GetClient(cm, request.k8sContext)
    IN  /\ request.pc = "GetClient.read"
        /\ clientManager' = Some([cm EXCEPT !.mutex.readers = @ \ {"request"}])
        /\ goroutines' = [goroutines EXCEPT
                !.request.client = IF IsNil(found.err)
                                   THEN Some(Deref(found.client).Context) ELSE Nil,
                !.request.pc = "return",
                !.request.result = IF IsNil(found.err) THEN "ok" ELSE "error"]
        /\ UNCHANGED <<config, authz, phase, call, machine>>

\* the handler returns
GetResourceReturns ==
    /\ goroutines.request.pc = "return"
    /\ goroutines' = [goroutines EXCEPT !.request = NoRequest]
    /\ UNCHANGED <<config, authz, clientManager, phase, call, machine>>

\* handleSwitchContext is called and is authorized
SwitchContextCalled ==
    /\ goroutines.switch.pc = "idle"
    /\ goroutines.switches < MaxSwitches
    /\ \E contextName \in {"dev", "prod", "qa"} :
        goroutines' = [goroutines EXCEPT
            !.switches = @ + 1,
            !.switch = [pc |-> "SetCurrentContext", contextName |-> contextName]]
    /\ UNCHANGED <<config, authz, clientManager, phase, call, machine>>

\* SetCurrentContext: cm.mutex.Lock()
SetCurrentContextLock ==
    /\ goroutines.switch.pc = "SetCurrentContext"
    /\ IsNil(cm.mutex.writer) /\ cm.mutex.readers = {}
    /\ clientManager' = Some([cm EXCEPT !.mutex.writer = Some("switch")])
    /\ goroutines' = [goroutines EXCEPT !.switch.pc = "SetCurrentContext.write"]
    /\ UNCHANGED <<config, authz, phase, call, machine>>

\* SetCurrentContext: the check and cm.currentContext = context
SetCurrentContextWrite ==
    LET set == SetCurrentContext(cm, goroutines.switch.contextName)
    IN  /\ goroutines.switch.pc = "SetCurrentContext.write"
        /\ clientManager' = Some(set.cm)
        /\ goroutines' = [goroutines EXCEPT
                !.switch.pc = IF IsNil(set.err) THEN "SetCurrentContext.Unlock"
                              ELSE "SetCurrentContext.failed"]
        /\ UNCHANGED <<config, authz, phase, call, machine>>

\* SetCurrentContext: the deferred Unlock; after a switch handleSwitchContext
\* goes on to GetContextConfig, after a failure it returns
SetCurrentContextUnlock ==
    /\ goroutines.switch.pc \in {"SetCurrentContext.Unlock", "SetCurrentContext.failed"}
    /\ clientManager' = Some([cm EXCEPT !.mutex.writer = Nil])
    /\ goroutines' = [goroutines EXCEPT
            !.switch.pc = IF goroutines.switch.pc = "SetCurrentContext.Unlock"
                          THEN "GetContextConfig" ELSE "idle"]
    /\ UNCHANGED <<config, authz, phase, call, machine>>

\* GetContextConfig(contextName) reads cm.contextsByName, and no lock is
\* taken; handleSwitchContext returns
GetContextConfigStep ==
    /\ goroutines.switch.pc = "GetContextConfig"
    /\ goroutines' = [goroutines EXCEPT !.switch = NoRequest]
    /\ UNCHANGED <<config, authz, clientManager, phase, call, machine>>

NextThreads ==
    \/ GetResourceCalled
    \/ GetContextParamStep
    \/ GetCurrentContextRead
    \/ CheckAuthorizationStep
    \/ IsNamespaceAllowedStep
    \/ GetClientLock
    \/ GetClientRead
    \/ GetResourceReturns
    \/ SwitchContextCalled
    \/ SetCurrentContextLock
    \/ SetCurrentContextWrite
    \/ SetCurrentContextUnlock
    \/ GetContextConfigStep

SpecThreads == InitThreads /\ [][NextThreads]_vars

(***************************************************************************)
(* Vocabulary of the claims about the lock and the context of a call       *)
(***************************************************************************)
\* the goroutines about to read cm.currentContext or one of the maps
Reading ==
    {t \in {"request"} : goroutines.request.pc \in
            {"GetCurrentContext.read", "GetClient.read", "IsNamespaceAllowed"}}
    \cup {t \in {"switch"} : goroutines.switch.pc = "GetContextConfig"}

\* the goroutines about to write cm.currentContext
Writing == {t \in {"switch"} : goroutines.switch.pc = "SetCurrentContext.write"}

\* a read of cm.currentContext and a write of it are both about to happen
ReadOverlapsWrite ==
    /\ goroutines.request.pc = "IsNamespaceAllowed"
    /\ goroutines.request.k8sContext = ""
    /\ Writing # {}

(***************************************************************************)
(* C26: every read of the active context and of the context maps by        *)
(* GetClient, GetCurrentContext, ListContexts, GetContextConfig and        *)
(* IsNamespaceAllowed happens under the shared lock and every write under  *)
(* the exclusive lock, so that no read of the active context overlaps a    *)
(* write by SetCurrentContext.                                             *)
(***************************************************************************)
C26_ReadsAndWritesLocked ==
    /\ \A t \in Reading : t \in cm.mutex.readers
    /\ \A t \in Writing : cm.mutex.writer = Some(t)
    /\ ~ReadOverlapsWrite

(***************************************************************************)
(* C27: an invocation without a context argument resolves the active       *)
(* context once.  The context the evaluator authorized, the context whose  *)
(* namespace lists gated the call and the context whose client made the    *)
(* cluster call are one and the same, however switch_context interleaves.  *)
(***************************************************************************)
C27_ContextResolvedOnce ==
    LET request == goroutines.request
    IN  (request.pc = "return" /\ request.result = "ok") =>
            /\ Deref(request.authorized) = Deref(request.client)
            /\ Deref(request.gated) = Deref(request.client)

(***************************************************************************)
(* The structural filter pipeline: yqutil.Evaluator and the handlers'      *)
(* applyYQExpressions.  A text is a sequence of tokens: "a" and "b" are    *)
(* the lines of two mapping entries, "\n" is white space, "{}" is the      *)
(* flow form of the empty mapping and "@" is a character no YAML document  *)
(* can hold there.  The query engine is the library's; it is modelled for  *)
(* the five expressions of YqExpressions.                                  *)
(***************************************************************************)
MaxTextLen == 3
MaxExpressions == 3

Whitespace == {"\n"}

TextTokens == {"a", "b", "\n", "@"}

ExprIdentity == "."
ExprDelA == "del(.a)"
ExprDelB == "del(.b)"
ExprNeedsA == "select(has(\"a\")) // error(\"no a\")"
ExprUnclosed == ".["

YqExpressions == {ExprIdentity, ExprDelA, ExprDelB, ExprNeedsA, ExprUnclosed}

SeqsUpTo(S, n) == UNION {[1..k -> S] : k \in 0..n}

Texts == SeqsUpTo(TextTokens, MaxTextLen)

\* an entry of args["yq_expressions"]: a string, or a value of another type
StringEntry(s) == [type |-> "string", value |-> s]
NumberEntry == [type |-> "number", value |-> "42"]

YqArgs ==
    {[yq_expressions |-> Nil]}
    \cup {[yq_expressions |-> Some(es)] :
            es \in SeqsUpTo({StringEntry(s) : s \in YqExpressions} \cup {NumberEntry},
                            MaxExpressions)}

RECURSIVE TrimLeft(_)
TrimLeft(s) ==
    IF s # <<>> /\ Head(s) \in Whitespace THEN TrimLeft(Tail(s)) ELSE s

RECURSIVE TrimRight(_)
TrimRight(s) ==
    IF s # <<>> /\ s[Len(s)] \in Whitespace
    THEN TrimRight(SubSeq(s, 1, Len(s) - 1))
    ELSE s

\* strings.TrimSpace
TrimSpace(s) == TrimRight(TrimLeft(s))

\* yqlib.ReadDocuments with the YAML decoder: a text of white space alone
\* holds no document, any other text holds one mapping (the sequence of its
\* keys)
ReadDocuments(input) ==
    IF \E i \in DOMAIN input : input[i] = "@"
    THEN [documents |-> <<>>, err |-> Some("yaml: found character that cannot start any token")]
    ELSE IF \A i \in DOMAIN input : input[i] \in Whitespace
    THEN [documents |-> <<>>, err |-> Nil]
    ELSE [documents |-> <<SelectSeq(input, LAMBDA t : t \in {"a", "b"})>>, err |-> Nil]

\* evaluator.EvaluateNodes of the library
EvaluateNodes(expression, nodes) ==
    LET without(key) == [k \in DOMAIN nodes |-> SelectSeq(nodes[k], LAMBDA t : t # key)]
    IN  IF expression = ExprIdentity THEN [results |-> nodes, err |-> Nil]
        ELSE IF expression = ExprDelA THEN [results |-> without("a"), err |-> Nil]
        ELSE IF expression = ExprDelB THEN [results |-> without("b"), err |-> Nil]
        ELSE IF expression = ExprNeedsA
        THEN IF \A k \in DOMAIN nodes : \E i \in DOMAIN nodes[k] : nodes[k][i] = "a"
             THEN [results |-> nodes, err |-> Nil]
             ELSE [results |-> <<>>, err |-> Some("no a")]
        ELSE [results |-> <<>>, err |-> Some("bad expression")]

RECURSIVE EncodeEntries(_)
EncodeEntries(node) ==
    IF node = <<>> THEN <<>>
    ELSE <<Head(node), "\n">> \o EncodeEntries(Tail(node))

\* encoder.Encode: block style, one line per entry; the empty mapping is {}
Encode(node) == IF node = <<>> THEN <<"{}", "\n">> ELSE EncodeEntries(node)

RECURSIVE EncodeAll(_)
EncodeAll(results) ==
    IF results = <<>> THEN <<>>
    ELSE Encode(Head(results)) \o EncodeAll(Tail(results))

\* Evaluator.evaluateSingle
evaluateSingle(input, expression) ==
    LET read == ReadDocuments(input)
    IN  IF ~IsNil(read.err)
        THEN [out |-> <<>>, err |-> Some(<<"failed to parse YAML", Deref(read.err)>>)]
        ELSE IF Len(read.documents) = 0 THEN [out |-> <<>>, err |-> Nil]
        ELSE LET evaluated == EvaluateNodes(expression, read.documents)
             IN  IF ~IsNil(evaluated.err)
                 THEN [out |-> <<>>,
                       err |-> Some(<<"failed to evaluate expression", Deref(evaluated.err)>>)]
                 ELSE [out |-> EncodeAll(evaluated.results), err |-> Nil]

\* the error of Evaluate: it quotes the expression and wraps the cause
ExpressionError(expr, cause) ==
    [message |-> "failed to evaluate expression", expr |-> expr, cause |-> cause]

\* the loop of Evaluate over expressions[i..]; evaluated records the
\* expressions handed to evaluateSingle so far
RECURSIVE EvaluateLoop_GoesOn(_, _, _, _)
EvaluateLoop_GoesOn(current, expressions, i, evaluated) ==
    IF i > Len(expressions)
    THEN [out |-> TrimSpace(current), err |-> Nil, evaluated |-> evaluated]
    ELSE LET single == evaluateSingle(current, expressions[i])
         IN  EvaluateLoop_GoesOn(IF IsNil(single.err) THEN single.out ELSE current,
                                 expressions, i + 1, Append(evaluated, expressions[i]))

RECURSIVE EvaluateLoop(_, _, _, _)
EvaluateLoop(current, expressions, i, evaluated) ==
    IF i > Len(expressions)
    THEN [out |-> TrimSpace(current), err |-> Nil, evaluated |-> evaluated]
    ELSE LET single == evaluateSingle(current, expressions[i])
         IN  IF ~IsNil(single.err)
             THEN [out |-> <<>>,
                   err |-> Some(ExpressionError(expressions[i], Deref(single.err))),
                   evaluated |-> Append(evaluated, expressions[i])]
             ELSE EvaluateLoop(single.out, expressions, i + 1,
                               Append(evaluated, expressions[i]))

\* yqutil's Evaluator.Evaluate (the authorization evaluator holds the name
\* Evaluate)
YqEvaluate(input, expressions) ==
    IF Len(expressions) = 0
    THEN [out |-> input, err |-> Nil, evaluated |-> <<>>]
    ELSE EvaluateLoop(input, expressions, 1, <<>>)

\* the string entries of the argument, in order
RECURSIVE StringsOf(_)
StringsOf(exprs) ==
    IF exprs = <<>> THEN <<>>
    ELSE IF Head(exprs).type = "string"
    THEN <<Head(exprs).value>> \o StringsOf(Tail(exprs))
    ELSE StringsOf(Tail(exprs))

\* Manager.applyYQExpressions
applyYQExpressions(yamlData, args) ==
    IF IsNil(args.yq_expressions) \/ Len(Deref(args.yq_expressions)) = 0
    THEN [out |-> yamlData, err |-> Nil, evaluated |-> <<>>]
    ELSE YqEvaluate(yamlData, StringsOf(Deref(args.yq_expressions)))

InitYq ==
    /\ config = Nil
    /\ authz = Nil
    /\ clientManager = Nil
    /\ machine = Nil
    /\ goroutines = Nil
    /\ phase = "yq.called"
    /\ \E yamlData \in Texts, args \in YqArgs :
            call = [op |-> "applyYQExpressions", yamlData |-> yamlData, args |-> args,
                    result |-> Nil]

\* a handler hands its rendered output and its arguments to the pipeline
ApplyYQExpressionsCalled ==
    /\ phase = "yq.called"
    /\ phase' = "yq.returned"
    /\ call' = [call EXCEPT !.result = Some(applyYQExpressions(call.yamlData, call.args))]
    /\ UNCHANGED <<config, authz, clientManager, machine, goroutines>>

NextYq == ApplyYQExpressionsCalled

SpecYq == InitYq /\ [][NextYq]_vars

\* the expressions a returned call handed to Evaluate
PipelineExpressions ==
    IF IsNil(call.args.yq_expressions) THEN <<>>
    ELSE StringsOf(Deref(call.args.yq_expressions))

\* Stages[i] is what stage i leaves: the input for i = 0, and the outcome of
\* expression i on the output of stage i - 1
Stages ==
    LET exprs == PipelineExpressions
        stage[i \in 0..Len(exprs)] ==
            IF i = 0 THEN [out |-> call.yamlData, err |-> Nil]
            ELSE evaluateSingle(stage[i - 1].out, exprs[i])
    IN  stage

FailingStages == {i \in 1..Len(PipelineExpressions) :
                    /\ ~IsNil(Stages[i].err)
                    /\ \A j \in 1..(i - 1) : IsNil(Stages[j].err)}

\* C25: a returned pipeline call over an empty expression list gives back
\* its input verbatim; over a list none of whose stages fails it has
\* evaluated every expression once, in list order, each on the previous
\* stage's output, and gives back the last stage's output (with the white
\* space around it trimmed); when a stage fails it has evaluated the
\* expressions up to and including the first failing one and no later one,
\* and gives back an error that names that expression, with an empty
\* document.
C25_PipelineInOrder ==
    phase = "yq.returned" =>
        LET exprs == PipelineExpressions
            result == Deref(call.result)
        IN  IF exprs = <<>>
            THEN result.out = call.yamlData /\ IsNil(result.err)
            ELSE IF FailingStages = {}
            THEN /\ IsNil(result.err)
                 /\ result.evaluated = exprs
                 /\ result.out = TrimSpace(Stages[Len(exprs)].out)
            ELSE \A k \in FailingStages :
                    /\ ~IsNil(result.err)
                    /\ Deref(result.err).expr = exprs[k]
                    /\ result.out = <<>>
                    /\ result.evaluated = SubSeq(exprs, 1, k)

\* a pipeline whose first stage changed the document, whose second stage
\* failed on the changed document, and whose third stage was never run
C25_Witness ==
    /\ phase = "yq.returned"
    /\ call.yamlData = <<"a", "\n", "b">>
    /\ PipelineExpressions = <<ExprDelA, ExprNeedsA, ExprIdentity>>
    /\ Deref(Deref(call.result).err).expr = ExprNeedsA
    /\ Deref(call.result).evaluated = <<ExprDelA, ExprNeedsA>>

(***************************************************************************)
(* undo_rollout: which ReplicaSet the rollback is taken from               *)
(***************************************************************************)
\* the ReplicaSets of a list that name the Deployment among their owners and
\* carry a revision annotation
OwnedRevisions(items, name) ==
    {i \in DOMAIN items :
        /\ \E j \in DOMAIN items[i].ownerReferences : items[i].ownerReferences[j] = name
        /\ ~IsNil(items[i].revision)}

\* the number a revision annotation of the model spells
RevisionNumber(rs) == CHOOSE n \in 1..3 : formatRevision(n) = Deref(rs.revision)

\* the ReplicaSets a rollback may be taken from: the one of the asked
\* revision, or, with no revision asked, the one just below the newest
RollbackSources(items, name, toRevision) ==
    LET owned == OwnedRevisions(items, name)
    IN  IF toRevision > 0
        THEN {i \in owned : Deref(items[i].revision) = formatRevision(toRevision)}
        ELSE {i \in owned :
                Cardinality({j \in owned :
                    RevisionNumber(items[j]) > RevisionNumber(items[i])}) = 1}

UndoListed == {k \in DOMAIN call.ops : call.ops[k].verb = "list"}
UndoPatches == {k \in DOMAIN call.ops : call.ops[k].verb = "patch"}

\* C30: an undo_rollout call that patches sets the Deployment's pod template
\* to that of the owned ReplicaSet whose revision is to_revision when
\* to_revision > 0, and to that of the previous revision when to_revision
\* is omitted; when the listed ReplicaSets hold no such ReplicaSet, or the
\* kind is not Deployment, the call returns an error and patches nothing.
C30_UndoRollout ==
    call.op = "undo_rollout" =>
        /\ \A k \in UndoPatches : \E l \in UndoListed :
                LET items == call.ops[l].items
                IN  \E i \in RollbackSources(items, call.args.name, call.args.to_revision) :
                        call.ops[k].template = items[i].template
        /\ call.args.kind # "Deployment" => call.result.IsError /\ UndoPatches = {}
        /\ \A l \in UndoListed :
                RollbackSources(call.ops[l].items, call.args.name,
                                call.args.to_revision) = {}
                    => call.result.IsError /\ UndoPatches = {}

====
